---- MODULE Spec2Model ----
(***************************************************************************)
(* Slime Sports (otterspoor/slimegames): the deterministic physics kernel  *)
(* (SlimeBase, BallBase and the soccer / volleyball variants), the live    *)
(* orchestrator tick (Game.update, Game.scorePoint) and the rollout        *)
(* simulators the decision engines search with.                            *)
(*                                                                         *)
(* Numbers.  The program computes in IEEE doubles.  The model computes on  *)
(* a fixed-point grid of SC units per pixel (and per pixel/tick), so 0.55  *)
(* is 55 and 0.99 * 0.55 = 0.5445 is 54: every product with a fractional   *)
(* factor is one exact integer product followed by one division that       *)
(* rounds toward zero.  sqrt rounds up.  cos(atan2(dy,dx)) is dx/dist and  *)
(* sin(atan2(dy,dx)) is dy/dist.  Comparisons of a distance or a speed to  *)
(* a constant are made exactly, on the squares.                            *)
(*                                                                         *)
(* Values.  Where a step's result is used several times by what follows,   *)
(* it is bound once as a value: CHOOSE y \in {F(x) : x \in {e}} : TRUE is   *)
(* F(e), with e evaluated before F is applied.                             *)
(***************************************************************************)
EXTENDS Integers, Sequences, FiniteSets, TLC

\* fixed-point resolution: grid units per pixel
SC == 100

Px(n) == n * SC
\* n hundredths of a pixel
Cx(n) == (n * SC) \div 100

-----------------------------------------------------------------------------
(* CONFIG *)
internalWidth == Px(1000)
internalHeight == Px(600)
gravity == Cx(55)
\* friction, in hundredths
friction == 99
slimeSpeed == Px(8)
slimeJumpForce == Px(14)
ballMaxSpeed == Px(22)
groundHeight == Px(50)
winningScore == 5
slimeRadius == Px(50)
ballRadius == Px(13)
popForce == Px(12)
VOLLEYBALL_NET_W == Px(20)
VOLLEYBALL_NET_H == Px(80)
SOCCER_GOAL_H == Px(130)
SOCCER_CROSSBAR_R == Px(8)

groundY == internalHeight - groundHeight
goalTopY == groundY - SOCCER_GOAL_H
netX == internalWidth \div 2
halfNetW == VOLLEYBALL_NET_W \div 2
netTopY == groundY - VOLLEYBALL_NET_H
capCenterY == netTopY + halfNetW
leftEdge == netX - halfNetW - ballRadius
rightEdge == netX + halfNetW + ballRadius
\* the serve / kickoff delay of ball.reset, in ms
freezeMs == 200

-----------------------------------------------------------------------------
(* arithmetic *)
Abs(a) == IF a < 0 THEN -a ELSE a
Min(a, b) == IF a < b THEN a ELSE b
Max(a, b) == IF a > b THEN a ELSE b

\* a / b rounded toward zero (b > 0)
Div(a, b) == IF a >= 0 THEN a \div b ELSE -((-a) \div b)

\* a * num / den, one rounding
Mul(a, num, den) == Div(a * num, den)

RECURSIVE Newton(_, _)
Newton(n, x) ==
  LET y == (x + n \div x) \div 2
  IN IF y >= x THEN x ELSE Newton(n, y)

\* Math.sqrt, rounded up
SqrtUp(n) ==
  IF n = 0 THEN 0
  ELSE LET f == Newton(n, n)
       IN IF f * f = n THEN f ELSE f + 1

\* Math.hypot(a, b), rounded up
Hypot(a, b) ==
  IF a = 0 /\ b = 0 THEN 0
  ELSE LET n == a * a + b * b
           f == Newton(n, Abs(a) + Abs(b))
       IN IF f * f = n THEN f ELSE f + 1

\* Math.hypot(a, b) < m, decided exactly
HypotLess(a, b, m) == Abs(a) < m /\ Abs(b) < m /\ a * a + b * b < m * m

\* Math.hypot(a, b) > m, decided exactly
HypotMore(a, b, m) == Abs(a) > m \/ Abs(b) > m \/ a * a + b * b > m * m

-----------------------------------------------------------------------------
(* SlimeBase and its two variants *)

\* SlimeBase constructor: the side-dependent start position
StartPos(isPlayer1) ==
  [x |-> IF isPlayer1 THEN Mul(internalWidth, 20, 100) ELSE Mul(internalWidth, 80, 100),
   y |-> internalHeight - groundHeight]

\* SlimeBase.reset (and the state the constructor leaves)
SlimeReset(isPlayer1) ==
  [x |-> StartPos(isPlayer1).x, y |-> StartPos(isPlayer1).y, vx |-> 0, vy |-> 0]

\* SlimeSoccer.applyBoundaries
SoccerApplyBoundaries(s) ==
  LET r == slimeRadius
      s1 == IF s.x - r < 0 THEN [s EXCEPT !.x = r] ELSE s
  IN IF s1.x + r > internalWidth THEN [s1 EXCEPT !.x = internalWidth - r] ELSE s1

\* SlimeVolleyball.applyBoundaries
VolleyballApplyBoundaries(s, isPlayer1) ==
  LET r == slimeRadius
      netW == VOLLEYBALL_NET_W \div 2
  IN IF isPlayer1
     THEN LET s1 == IF s.x + r > netX - netW THEN [s EXCEPT !.x = netX - netW - r] ELSE s
          IN IF s1.x - r < 0 THEN [s1 EXCEPT !.x = r] ELSE s1
     ELSE LET s1 == IF s.x - r < netX + netW THEN [s EXCEPT !.x = netX + netW + r] ELSE s
          IN IF s1.x + r > internalWidth THEN [s1 EXCEPT !.x = internalWidth - r] ELSE s1

\* boundaries that give both variants the full court
ApplyBoundariesFullCourt(s, isPlayer1, mode) == SoccerApplyBoundaries(s)

ApplyBoundaries(s, isPlayer1, mode) ==
  IF mode = "SOCCER" THEN SoccerApplyBoundaries(s) ELSE VolleyballApplyBoundaries(s, isPlayer1)

\* SlimeBase.update: the lateral velocity chosen from the two lateral signals
LateralVelocity(moveLeft, moveRight) ==
  LET v0 == 0
      v1 == IF moveLeft THEN -slimeSpeed ELSE v0
  IN IF moveRight THEN slimeSpeed ELSE v1

\* a jump test that does not look at the ground line
JumpVelocityAnywhere(s, jump) ==
  IF jump THEN -slimeJumpForce ELSE s.vy

\* SlimeBase.update: the vertical velocity after the jump test
JumpVelocity(s, jump) ==
  IF jump /\ s.y >= internalHeight - groundHeight THEN -slimeJumpForce ELSE s.vy

\* a ground clamp that puts the slime back on the line and keeps its fall speed
GroundClampKeepVy(s) ==
  IF s.y > groundY THEN [s EXCEPT !.y = groundY] ELSE s

\* SlimeBase.update: the ground clamp
GroundClamp(s) ==
  IF s.y > groundY THEN [s EXCEPT !.y = groundY, !.vy = 0] ELSE s

\* SlimeBase.update; input is the set of key codes that are down
SlimeUpdate(s, isPlayer1, mode, input) ==
  LET moveLeft == IF isPlayer1 THEN "KeyA" \in input ELSE "ArrowLeft" \in input
      moveRight == IF isPlayer1 THEN "KeyD" \in input ELSE "ArrowRight" \in input
      jump == IF isPlayer1 THEN "KeyW" \in input ELSE "ArrowUp" \in input
      vx == LateralVelocity(moveLeft, moveRight)
      vy == JumpVelocity(s, jump) + gravity
      moved == [x |-> s.x + vx, y |-> s.y + vy, vx |-> vx, vy |-> vy]
  IN ApplyBoundaries(GroundClamp(moved), isPlayer1, mode)

-----------------------------------------------------------------------------
(* The world one ball update works on: the ball, the two slimes it collides  *)
(* with and the game it reports points to (Game, or a rollout's FakeGame).   *)
(* ev and pts record what the update did: the branches taken and the points  *)
(* recorded, in order.                                                       *)

\* BallBase constructor
NewBall == [x |-> 0, y |-> 0, prevX |-> 0, prevY |-> 0, vx |-> 0, vy |-> 0, frozenUntil |-> 0]

\* BallSoccer.reset
SoccerBallReset(b, now) ==
  [x |-> internalWidth \div 2, y |-> Px(200),
   prevX |-> internalWidth \div 2, prevY |-> Px(200),
   vx |-> 0, vy |-> 0, frozenUntil |-> now + freezeMs]

\* BallVolleyball.reset
VolleyballBallReset(b, serverSlime, now) ==
  [x |-> serverSlime.x, y |-> serverSlime.y - Px(150),
   prevX |-> serverSlime.x, prevY |-> serverSlime.y - Px(150),
   vx |-> 0, vy |-> 0, frozenUntil |-> now + freezeMs]

\* a round reset that always drops the ball over player 1
ResetRoundOverPlayer1(w, now) ==
  LET q1 == SlimeReset(TRUE)
      q2 == SlimeReset(FALSE)
  IN [w EXCEPT !.p1 = q1, !.p2 = q2,
               !.ball = IF w.mode = "VOLLEYBALL"
                        THEN VolleyballBallReset(w.ball, q1, now)
                        ELSE SoccerBallReset(w.ball, now)]

\* Game.resetRound
ResetRound(w, now) ==
  LET q1 == SlimeReset(TRUE)
      q2 == SlimeReset(FALSE)
      serverSlime == IF w.g.server = 1 THEN q1 ELSE q2
  IN [w EXCEPT !.p1 = q1, !.p2 = q2,
               !.ball = IF w.mode = "VOLLEYBALL"
                        THEN VolleyballBallReset(w.ball, serverSlime, now)
                        ELSE SoccerBallReset(w.ball, now)]

\* a match end that leaves the game running
EndGamePlayOn(w) == w

\* Game.endGame
EndGame(w) == [w EXCEPT !.g.running = FALSE]

\* Game.scorePoint
GameScorePoint(w, scoringPlayer, now) ==
  LET w1 == IF scoringPlayer = 1 THEN [w EXCEPT !.g.score1 = @ + 1]
                                 ELSE [w EXCEPT !.g.score2 = @ + 1]
  IN IF w1.g.score1 >= winningScore \/ w1.g.score2 >= winningScore
     THEN EndGame(w1)
     ELSE ResetRound(IF w1.mode = "VOLLEYBALL" THEN [w1 EXCEPT !.g.server = scoringPlayer] ELSE w1,
                     now)

\* FakeGame.scorePoint
FakeScorePoint(w, scoringPlayer) == [w EXCEPT !.g.lastScore = scoringPlayer]

\* this.game.scorePoint(n), dispatched on the game the ball was built with
ScorePoint(w, scoringPlayer, now) ==
  LET w1 == [w EXCEPT !.pts = Append(@, scoringPlayer)]
  IN IF w1.g.live THEN GameScorePoint(w1, scoringPlayer, now) ELSE FakeScorePoint(w1, scoringPlayer)

Ev(w, tag) == [w EXCEPT !.ev = @ \cup {tag}]

-----------------------------------------------------------------------------
(* BallBase: the universal physics *)

\* the speed clamp of BallBase.update and of resolveSlimeHit:
\*   if (speed > max) { scale = max / speed; vx *= scale; vy *= scale }
ClampSpeed(b) ==
  IF HypotMore(b.vx, b.vy, ballMaxSpeed)
  THEN LET speed == Hypot(b.vx, b.vy)
       IN [b EXCEPT !.vx = Mul(b.vx, ballMaxSpeed, speed),
                    !.vy = Mul(b.vy, ballMaxSpeed, speed)]
  ELSE b

\* an update that leaves gravity out
AccelerateNoGravity(b) ==
  ClampSpeed([b EXCEPT !.vx = Mul(b.vx, friction, 100),
                       !.vy = Mul(b.vy, friction, 100)])

\* an update that applies friction before gravity
AccelerateFrictionFirst(b) ==
  ClampSpeed([b EXCEPT !.vx = Mul(b.vx, friction, 100),
                       !.vy = Mul(b.vy, friction, 100) + gravity])

\* BallBase.update: gravity, friction, clamp, before the position is integrated
Accelerate(b) ==
  ClampSpeed([b EXCEPT !.vx = Mul(b.vx, friction, 100),
                       !.vy = Mul(b.vy + gravity, friction, 100)])

\* BallBase.update: prevX/prevY, velocity, position
Integrate(b) ==
  LET a == Accelerate([b EXCEPT !.prevX = b.x, !.prevY = b.y])
  IN [a EXCEPT !.x = a.x + a.vx, !.y = a.y + a.vy]

\* BallBase.checkUniversalBoundaries
CheckUniversalBoundaries(w) ==
  IF w.ball.y < ballRadius
  THEN Ev([w EXCEPT !.ball.y = ballRadius, !.ball.vy = Mul(Abs(w.ball.vy), 5, 10)], "top")
  ELSE w

\* the body of BallBase.resolveCircleCollision once dist < minDist && dist > 0:
\* push out along the normal, reflect the normal velocity component with 1.8
CircleBounce(b, dx, dy, minDist) ==
  LET dist == Hypot(dx, dy)
      overlap == minDist - dist
      nx == Div(dx * SC, dist)
      ny == Div(dy * SC, dist)
      dot == b.vx * nx + b.vy * ny
  IN [b EXCEPT !.x = b.x + Div(dx * overlap, dist),
               !.y = b.y + Div(dy * overlap, dist),
               !.vx = Div(10 * SC * SC * b.vx - 18 * dot * nx, 10 * SC * SC),
               !.vy = Div(10 * SC * SC * b.vy - 18 * dot * ny, 10 * SC * SC)]

\* a resolveCircleCollision without the dist > 0 test: at distance 0 the angle
\* atan2(0, 0) is 0, so the ball is pushed out and reflected along +x
ResolveCircleCollisionAtZero(w, cx, cy, cr, tag) ==
  LET dx == w.ball.x - cx
      dy == w.ball.y - cy
      minDist == ballRadius + cr
  IN IF dx = 0 /\ dy = 0
     THEN Ev([w EXCEPT !.ball.x = @ + minDist, !.ball.vx = Mul(@, -8, 10)], tag)
     ELSE IF HypotLess(dx, dy, minDist)
          THEN Ev([w EXCEPT !.ball = CircleBounce(w.ball, dx, dy, minDist)], tag)
          ELSE w

\* BallBase.resolveCircleCollision
ResolveCircleCollision(w, cx, cy, cr, tag) ==
  LET dx == w.ball.x - cx
      dy == w.ball.y - cy
      minDist == ballRadius + cr
  IN IF HypotLess(dx, dy, minDist) /\ ~(dx = 0 /\ dy = 0)
     THEN Ev([w EXCEPT !.ball = CircleBounce(w.ball, dx, dy, minDist)], tag)
     ELSE w

-----------------------------------------------------------------------------
(* resolveSlimeHit, as overridden by the two variants.  The contact angle    *)
(* is passed as (dx, dy, dist): cos(angle) = dx/dist, sin(angle) = dy/dist.  *)

\* the vertical velocity of a generic (off-centre, non-stomp) kick
KickVy(s, dy, dist) == Min(Div(dy * popForce, dist) + Mul(s.vy, 11, 10), Px(15))

\* the 10%-of-radius "directly on top" window of both variants
IsDirectlyOnTop(dx) == Abs(dx) < Mul(slimeRadius, 10, 100)

\* BallVolleyball.resolveSlimeHit: the velocity before the post-hit clamp
VolleyballHitVelocity(b, s, dx, dy, dist, isStomp) ==
  LET slimeHorizontalMomentum == Mul(s.vx, 15, 10)
      horizontalDir == IF dx > 0 THEN 1 ELSE -1
  IN IF isStomp
     THEN IF IsDirectlyOnTop(dx)
          THEN [b EXCEPT !.vx = slimeHorizontalMomentum,
                         !.vy = -Px(10) + Mul(s.vy, 5, 10)]
          ELSE [b EXCEPT !.vx = horizontalDir * Px(12) + slimeHorizontalMomentum,
                         !.vy = -Px(10) + Mul(s.vy, 5, 10)]
     ELSE IF IsDirectlyOnTop(dx)
          THEN [b EXCEPT !.vx = slimeHorizontalMomentum,
                         !.vy = -popForce + Mul(s.vy, 11, 10)]
          ELSE [b EXCEPT !.vx = Div(dx * popForce, dist) + slimeHorizontalMomentum,
                         !.vy = KickVy(s, dy, dist)]

\* a drift keyed to where the ball is at the contact, not to where it was
DriftDirAtContact(b, s) ==
  LET dxNow == b.x - s.x
  IN IF dxNow = 0 THEN (IF s.vx >= 0 THEN 1 ELSE -1) ELSE (IF dxNow > 0 THEN 1 ELSE -1)

\* BallSoccer.resolveSlimeHit: the drift direction of a directly-overhead hit
DriftDir(b, s) ==
  LET dxPrev == b.prevX - s.x
  IN IF dxPrev = 0 THEN (IF s.vx >= 0 THEN 1 ELSE -1) ELSE (IF dxPrev > 0 THEN 1 ELSE -1)

\* a goal contest hit that takes nothing from the slime's lateral velocity
SoccerHitVelocityNoMomentum(b, s, dx, dy, dist, isStomp) ==
  LET horizontalDir == IF dx > 0 THEN 1 ELSE -1
  IN IF isStomp
     THEN IF IsDirectlyOnTop(dx)
          THEN [b EXCEPT !.vx = DriftDir(b, s) * Px(3),
                         !.vy = -Cx(850) + Mul(s.vy, 45, 100)]
          ELSE [b EXCEPT !.vx = horizontalDir * Px(12),
                         !.vy = -Px(10) + Mul(s.vy, 5, 10)]
     ELSE IF IsDirectlyOnTop(dx)
          THEN [b EXCEPT !.vx = DriftDir(b, s) * Cx(220),
                         !.vy = -Mul(popForce, 78, 100) + Mul(s.vy, 9, 10)]
          ELSE [b EXCEPT !.vx = Div(dx * popForce, dist),
                         !.vy = KickVy(s, dy, dist)]

\* BallSoccer.resolveSlimeHit: the velocity before the post-hit clamp
SoccerHitVelocity(b, s, dx, dy, dist, isStomp) ==
  LET slimeHorizontalMomentum == Mul(s.vx, 125, 100)
      horizontalDir == IF dx > 0 THEN 1 ELSE -1
  IN IF isStomp
     THEN IF IsDirectlyOnTop(dx)
          THEN [b EXCEPT !.vx = slimeHorizontalMomentum + DriftDir(b, s) * Px(3),
                         !.vy = -Cx(850) + Mul(s.vy, 45, 100)]
          ELSE [b EXCEPT !.vx = horizontalDir * Px(12) + slimeHorizontalMomentum,
                         !.vy = -Px(10) + Mul(s.vy, 5, 10)]
     ELSE IF IsDirectlyOnTop(dx)
          THEN [b EXCEPT !.vx = slimeHorizontalMomentum + DriftDir(b, s) * Cx(220),
                         !.vy = -Mul(popForce, 78, 100) + Mul(s.vy, 9, 10)]
          ELSE [b EXCEPT !.vx = Div(dx * popForce, dist) + slimeHorizontalMomentum,
                         !.vy = KickVy(s, dy, dist)]

\* a resolveSlimeHit without the closing clamp
ResolveSlimeHitNoClamp(mode, b, s, dx, dy, dist, isStomp) ==
  IF mode = "SOCCER" THEN SoccerHitVelocity(b, s, dx, dy, dist, isStomp)
                     ELSE VolleyballHitVelocity(b, s, dx, dy, dist, isStomp)

\* resolveSlimeHit of the ball's variant, with its closing clamp
ResolveSlimeHit(mode, b, s, dx, dy, dist, isStomp) ==
  ClampSpeed(IF mode = "SOCCER" THEN SoccerHitVelocity(b, s, dx, dy, dist, isStomp)
                                ELSE VolleyballHitVelocity(b, s, dx, dy, dist, isStomp))

\* BallBase.checkSlimeCollision: isStomp, Math.sin(angle) < -0.8, on the squares
IsStomp(dx, dy) == dy < 0 /\ 25 * dy * dy > 16 * (dx * dx + dy * dy)

\* BallBase.checkSlimeCollision: does the ball touch this slime
Touches(b, s) ==
  LET dx == b.x - s.x
      dy == b.y - s.y
  IN HypotLess(dx, dy, slimeRadius + ballRadius) /\ ~(dx = 0 /\ dy = 0) /\ ~(dy > 0)

\* BallBase.checkSlimeCollision: position correction, then the velocity response
SlimeContact(mode, b, s) ==
  LET dx == b.x - s.x
      dy == b.y - s.y
      dist == Hypot(dx, dy)
      overlap == slimeRadius + ballRadius - dist
      moved == [b EXCEPT !.x = b.x + Div(dx * overlap, dist),
                         !.y = b.y + Div(dy * overlap, dist)]
  IN ResolveSlimeHit(mode, moved, s, dx, dy, dist, IsStomp(dx, dy))

\* BallBase.checkSlimeCollision
CheckSlimeCollision(w, isPlayer1) ==
  LET s == IF isPlayer1 THEN w.p1 ELSE w.p2
  IN IF Touches(w.ball, s)
     THEN Ev([w EXCEPT !.ball = SlimeContact(w.mode, w.ball, s)],
             IF isPlayer1 THEN "hit1" ELSE "hit2")
     ELSE w

-----------------------------------------------------------------------------
(* checkGameGeometry of the two variants *)

\* a ground bounce that turns the velocity and leaves the ball where it is
SoccerGroundUnlifted(w) ==
  IF w.ball.y + ballRadius > groundY
  THEN Ev([w EXCEPT !.ball.vy = Mul(w.ball.vy, -80, 100),
                    !.ball.vx = Mul(w.ball.vx, 95, 100)], "ground")
  ELSE w

\* BallSoccer.checkGameGeometry: ground bounce
SoccerGround(w) ==
  IF w.ball.y + ballRadius > groundY
  THEN Ev([w EXCEPT !.ball.y = groundY - ballRadius,
                    !.ball.vy = Mul(w.ball.vy, -80, 100),
                    !.ball.vx = Mul(w.ball.vx, 95, 100)], "ground")
  ELSE w

\* a left wall whose goal counts for player 1
SoccerLeftWallOwnGoal(w, now) ==
  IF w.ball.x < ballRadius
  THEN IF w.ball.y < goalTopY
       THEN Ev([w EXCEPT !.ball.x = ballRadius, !.ball.vx = Mul(w.ball.vx, -8, 10)], "wallL")
       ELSE IF w.ball.x < -ballRadius THEN ScorePoint(Ev(w, "goalL"), 1, now) ELSE w
  ELSE w

\* BallSoccer.checkGameGeometry: left wall / left goal
SoccerLeftWall(w, now) ==
  IF w.ball.x < ballRadius
  THEN IF w.ball.y < goalTopY
       THEN Ev([w EXCEPT !.ball.x = ballRadius, !.ball.vx = Mul(w.ball.vx, -8, 10)], "wallL")
       ELSE IF w.ball.x < -ballRadius THEN ScorePoint(Ev(w, "goalL"), 2, now) ELSE w
  ELSE w

\* BallSoccer.checkGameGeometry: right wall / right goal
SoccerRightWall(w, now) ==
  IF w.ball.x > internalWidth - ballRadius
  THEN IF w.ball.y < goalTopY
       THEN Ev([w EXCEPT !.ball.x = internalWidth - ballRadius,
                         !.ball.vx = Mul(w.ball.vx, -8, 10)], "wallR")
       ELSE IF w.ball.x > internalWidth + ballRadius THEN ScorePoint(Ev(w, "goalR"), 1, now) ELSE w
  ELSE w

\* BallSoccer.checkGameGeometry
SoccerGeometry(w, now) ==
  LET w1 == SoccerGround(w)
      w2 == SoccerLeftWall(w1, now)
      w3 == SoccerRightWall(w2, now)
      w4 == ResolveCircleCollision(w3, 0, goalTopY, SOCCER_CROSSBAR_R, "crossbarL")
  IN ResolveCircleCollision(w4, internalWidth, goalTopY, SOCCER_CROSSBAR_R, "crossbarR")

\* BallVolleyball.checkGameGeometry: side walls
VolleyballWalls(w) ==
  LET w1 == IF w.ball.x < ballRadius
            THEN Ev([w EXCEPT !.ball.x = ballRadius, !.ball.vx = -w.ball.vx], "wallL")
            ELSE w
  IN IF w1.ball.x > internalWidth - ballRadius
     THEN Ev([w1 EXCEPT !.ball.x = internalWidth - ballRadius, !.ball.vx = -w1.ball.vx], "wallR")
     ELSE w1

\* BallVolleyball.checkGameGeometry: net post
VolleyballPost(w) ==
  IF w.ball.y >= capCenterY
  THEN IF w.ball.prevX <= leftEdge /\ w.ball.x > leftEdge
       THEN Ev([w EXCEPT !.ball.x = leftEdge, !.ball.vx = Mul(w.ball.vx, -7, 10)], "postL")
       ELSE IF w.ball.prevX >= rightEdge /\ w.ball.x < rightEdge
            THEN Ev([w EXCEPT !.ball.x = rightEdge, !.ball.vx = Mul(w.ball.vx, -7, 10)], "postR")
            ELSE w
  ELSE w

\* BallVolleyball.checkGameGeometry: net cap, else net post
VolleyballNet(w) ==
  IF w.ball.y < capCenterY
     /\ HypotLess(w.ball.x - netX, w.ball.y - capCenterY, ballRadius + halfNetW)
  THEN ResolveCircleCollision(w, netX, capCenterY, halfNetW, "cap")
  ELSE VolleyballPost(w)

\* a net-contest geometry that bounces the ball off the side walls before it
\* looks at the ground
VolleyballGeometryWallsFirst(w, now) ==
  LET u == VolleyballWalls(w)
  IN IF u.ball.y + ballRadius > groundY
     THEN ScorePoint(Ev(u, "floor"), IF u.ball.x < netX THEN 2 ELSE 1, now)
     ELSE VolleyballNet(u)

\* BallVolleyball.checkGameGeometry
VolleyballGeometry(w, now) ==
  IF w.ball.y + ballRadius > groundY
  THEN ScorePoint(Ev(w, "floor"), IF w.ball.x < netX THEN 2 ELSE 1, now)
  ELSE VolleyballNet(VolleyballWalls(w))

CheckGameGeometry(w, now) ==
  IF w.mode = "SOCCER" THEN SoccerGeometry(w, now) ELSE VolleyballGeometry(w, now)

\* BallBase.update; now is Date.now()
\* a ball update that never tests frozenUntil
BallUpdateThawed(w, now) ==
  LET w0 == [w EXCEPT !.ball = Integrate(w.ball), !.ev = {}, !.pts = <<>>]
      w1 == CheckUniversalBoundaries(w0)
      w2 == CheckGameGeometry(w1, now)
      w3 == CheckSlimeCollision(w2, TRUE)
  IN CheckSlimeCollision(w3, FALSE)

\* BallBase.update
BallUpdate(w, now) ==
  IF now < w.ball.frozenUntil
  THEN [w EXCEPT !.ev = {"frozen"}, !.pts = <<>>]
  ELSE LET w0 == [w EXCEPT !.ball = Integrate(w.ball), !.ev = {}, !.pts = <<>>]
           w1 == CheckUniversalBoundaries(w0)
           w2 == CheckGameGeometry(w1, now)
           w3 == CheckSlimeCollision(w2, TRUE)
       IN CheckSlimeCollision(w3, FALSE)

-----------------------------------------------------------------------------
(* The rollout simulators (SoccerRolloutSimulator, VolleyballRolloutSimulator) *)

\* buildP2Input
BuildP2Input(action, jump) ==
  (IF action = "LEFT" THEN {"ArrowLeft"} ELSE {})
  \cup (IF action = "RIGHT" THEN {"ArrowRight"} ELSE {})
  \cup (IF jump THEN {"ArrowUp"} ELSE {})

\* buildP1Input
BuildP1Input(action, jump) ==
  (IF action = "LEFT" THEN {"KeyA"} ELSE {})
  \cup (IF action = "RIGHT" THEN {"KeyD"} ELSE {})
  \cup (IF jump THEN {"KeyW"} ELSE {})

\* opts: no p1Plan (and no p1Input) given
NoPlan == [action |-> "NONE", jumpOnStep0 |-> FALSE, given |-> FALSE]

\* the opponent input source simulate builds once, before its loop
OpponentInput(p1Plan) ==
  IF p1Plan.given THEN BuildP1Input(p1Plan.action, p1Plan.jumpOnStep0) ELSE {}

\* a throwaway ball left with the freeze window of a reset at time 0
RolloutBallFrozen(snapshot) ==
  [x |-> snapshot.ball.x, y |-> snapshot.ball.y,
   prevX |-> snapshot.ball.x, prevY |-> snapshot.ball.y,
   vx |-> snapshot.ball.vx, vy |-> snapshot.ball.vy, frozenUntil |-> freezeMs]

\* simulate: "restore state" of the throwaway ball
RolloutBall(snapshot) ==
  [x |-> snapshot.ball.x, y |-> snapshot.ball.y,
   prevX |-> snapshot.ball.x, prevY |-> snapshot.ball.y,
   vx |-> snapshot.ball.vx, vy |-> snapshot.ball.vy, frozenUntil |-> 0]

\* simulate: the throwaway slimes, ball and FakeGame
RolloutWorld(mode, snapshot) ==
  [mode |-> mode, p1 |-> snapshot.p1, p2 |-> snapshot.p2, ball |-> RolloutBall(snapshot),
   g |-> [live |-> FALSE, score1 |-> 0, score2 |-> 0, server |-> 1, running |-> TRUE,
          lastScore |-> 0],
   ev |-> {}, pts |-> <<>>]

\* this.snapshot(p1, p2, ball)
SnapshotOf(w) ==
  [p1 |-> w.p1, p2 |-> w.p2,
   ball |-> [x |-> w.ball.x, y |-> w.ball.y, vx |-> w.ball.vx, vy |-> w.ball.vy]]

\* a jump flag held on every tick of the rollout
PlanJumpHeld(plan, i) == plan.jumpOnStep0

\* simulate: the searching side's jump signal on tick i
PlanJump(plan, i) == (i = 0) /\ plan.jumpOnStep0

\* simulate: one pass of the loop body up to ball.update
RolloutTick(w, i, plan, p1Input, now) ==
  LET p2Input == BuildP2Input(plan.action, PlanJump(plan, i))
      q1 == SlimeUpdate(w.p1, TRUE, w.mode, p1Input)
      q2 == SlimeUpdate(w.p2, FALSE, w.mode, p2Input)
  IN CHOOSE u \in {BallUpdate(x, now) : x \in {[w EXCEPT !.p1 = q1, !.p2 = q2]}} : TRUE

\* VolleyballRolloutSimulator.simulate: the net-crossing counters before the loop
NewMetrics(w) ==
  [netCrossings |-> 0, noCrossTicks |-> 0, maxNoCrossTicks |-> 0,
   ourSideTicks |-> 0, oppSideTicks |-> 0,
   prevSide |-> IF w.ball.x < netX THEN "LEFT" ELSE "RIGHT"]

\* counters that leave a tick on which the ball changes sides out of the
\* per-side tick counts
StepMetricsCrossingUncounted(m, w) ==
  LET side == IF w.ball.x < netX THEN "LEFT" ELSE "RIGHT"
  IN IF side # m.prevSide
     THEN [m EXCEPT !.netCrossings = @ + 1, !.noCrossTicks = 0, !.prevSide = side]
     ELSE LET m1 == [m EXCEPT !.noCrossTicks = @ + 1,
                              !.maxNoCrossTicks = Max(@, m.noCrossTicks + 1)]
          IN IF side = "RIGHT" THEN [m1 EXCEPT !.ourSideTicks = @ + 1]
                               ELSE [m1 EXCEPT !.oppSideTicks = @ + 1]

\* VolleyballRolloutSimulator.simulate: the counters after one tick
StepMetrics(m, w) ==
  LET side == IF w.ball.x < netX THEN "LEFT" ELSE "RIGHT"
      m1 == IF side # m.prevSide
            THEN [m EXCEPT !.netCrossings = @ + 1, !.noCrossTicks = 0, !.prevSide = side]
            ELSE [m EXCEPT !.noCrossTicks = @ + 1,
                           !.maxNoCrossTicks = Max(@, m.noCrossTicks + 1)]
  IN IF side = "RIGHT" THEN [m1 EXCEPT !.ourSideTicks = @ + 1]
                       ELSE [m1 EXCEPT !.oppSideTicks = @ + 1]

\* a loop body that does not return when fakeGame.lastScore is set
RolloutIterOnward(r, plan, p1Input, now) ==
  CHOOSE next \in
    {[w |-> w1, i |-> r.i + 1, stop |-> FALSE,
      m |-> IF w1.mode = "VOLLEYBALL" THEN StepMetrics(r.m, w1) ELSE r.m] :
       w1 \in {RolloutTick(r.w, r.i, plan, p1Input, now)}} : TRUE

\* simulate: one iteration of the for loop, on the loop state
\* r = [w, m, i, stop]: the world, the counters, the ticks run, and whether
\* the loop has returned (a point was recorded)
RolloutIter(r, plan, p1Input, now) ==
  CHOOSE next \in
    {[w |-> w1, i |-> r.i + 1, stop |-> w1.g.lastScore # 0,
      m |-> IF w1.mode = "VOLLEYBALL" THEN StepMetrics(r.m, w1) ELSE r.m] :
       w1 \in {RolloutTick(r.w, r.i, plan, p1Input, now)}} : TRUE

\* simulate: iterations lo .. hi-1 of the for loop, in order, ending at the
\* first one that returns (the range is split in halves to keep the
\* evaluation shallow, and the state after the first half is bound as a value
\* before the second half runs; the iterations run are those of the loop)
RECURSIVE RolloutLoop(_, _, _, _, _, _)
RolloutLoop(r, lo, hi, plan, p1Input, now) ==
  IF r.stop \/ lo >= hi THEN r
  ELSE IF hi = lo + 1 THEN RolloutIter(r, plan, p1Input, now)
  ELSE LET mid == (lo + hi) \div 2
       IN CHOOSE res \in {RolloutLoop(h, mid, hi, plan, p1Input, now) :
                            h \in {RolloutLoop(r, lo, mid, plan, p1Input, now)}} : TRUE

\* the RolloutResult literal; step 0 stands for null, and the soccer result
\* carries no metrics (all 0 here); ticks is the number of iterations run
Result(r) ==
  [verdict |-> IF ~r.stop THEN "none" ELSE IF r.w.g.lastScore = 2 THEN "win" ELSE "loss",
   step |-> IF r.stop THEN r.i ELSE 0,
   end |-> SnapshotOf(r.w),
   metrics |-> [netCrossings |-> r.m.netCrossings, endNoCrossTicks |-> r.m.noCrossTicks,
                maxNoCrossTicks |-> r.m.maxNoCrossTicks,
                ourSideTicks |-> r.m.ourSideTicks, oppSideTicks |-> r.m.oppSideTicks],
   ticks |-> r.i]

\* SoccerRolloutSimulator.simulate / VolleyballRolloutSimulator.simulate
Simulate(mode, snapshot, steps, plan, p1Plan, now) ==
  LET w == RolloutWorld(mode, snapshot)
      m == IF mode = "VOLLEYBALL" THEN NewMetrics(w)
           ELSE [netCrossings |-> 0, noCrossTicks |-> 0, maxNoCrossTicks |-> 0,
                 ourSideTicks |-> 0, oppSideTicks |-> 0, prevSide |-> "LEFT"]
  IN CHOOSE res \in
       {Result(r) : r \in {RolloutLoop(r0, 0, steps, plan, OpponentInput(p1Plan), now) :
                             r0 \in {[w |-> w, m |-> m, i |-> 0, stop |-> FALSE]}}} : TRUE

-----------------------------------------------------------------------------
\* ticks explored from each initial state
MaxTicks == 2

\* the clock values explored, in ms: 0, ClockStep, ... up to MaxNow
MaxNow == 300

ClockStep == 100

\* Game.startGame(mode), through resetRound
StartGame(mode, t) ==
  LET w == ResetRound([mode |-> mode, p1 |-> SlimeReset(TRUE), p2 |-> SlimeReset(FALSE),
                       ball |-> NewBall,
                       g |-> [live |-> TRUE, score1 |-> 0, score2 |-> 0, server |-> 1,
                              running |-> TRUE, lastScore |-> 0],
                       ev |-> {}, pts |-> <<>>], t)
  IN w

-----------------------------------------------------------------------------
(* Initial states: the kickoff / serve that startGame leaves, and states of  *)
(* a rally in progress (slimes on the ground or on a jump arc, the ball in   *)
(* flight near each piece of geometry).                                      *)

\* a slime standing on the ground line
Ground(x) == [x |-> x, y |-> groundY, vx |-> 0, vy |-> 0]

\* a slime k updates into a jump it started from the ground: SlimeBase.update
\* sets vy = -slimeJumpForce, then adds gravity and integrates on every update
Air(x, k) ==
  [x |-> x, y |-> groundY - k * slimeJumpForce + gravity * ((k * (k + 1)) \div 2),
   vx |-> 0, vy |-> -slimeJumpForce + k * gravity]

\* a ball in flight, not frozen
BallAt(x, y, vx, vy) ==
  [x |-> x, y |-> y, prevX |-> x, prevY |-> y, vx |-> vx, vy |-> vy, frozenUntil |-> 0]

\* the same flight seen from the other side of the field
MirrorBall(b) ==
  [b EXCEPT !.x = internalWidth - b.x, !.prevX = internalWidth - b.prevX, !.vx = -b.vx]

Scene(mode, q1, q2, b, s1, s2) ==
  [mode |-> mode, p1 |-> q1, p2 |-> q2, ball |-> b, now |-> MaxNow,
   score1 |-> s1, score2 |-> s2, server |-> 1, touched |-> TRUE]

\* the state startGame leaves
Kickoff(mode) ==
  LET w == StartGame(mode, 0)
  IN [mode |-> mode, p1 |-> w.p1, p2 |-> w.p2, ball |-> w.ball, now |-> 0,
      score1 |-> 0, score2 |-> 0, server |-> 1, touched |-> FALSE]

\* the state scorePoint(2) leaves in the net contest: player 2 serves
ServeBy2 ==
  LET w == GameScorePoint(StartGame("VOLLEYBALL", 0), 2, 0)
  IN [mode |-> "VOLLEYBALL", p1 |-> w.p1, p2 |-> w.p2, ball |-> w.ball, now |-> 0,
      score1 |-> w.g.score1, score2 |-> w.g.score2, server |-> w.g.server,
      touched |-> FALSE]

\* goal contest: balls running at the left goal mouth, the left wall and the
\* left crossbar
SoccerLeftBalls ==
  {BallAt(x, y, vx, 0) : x \in {Px(6), Px(20)}, y \in {groundY - ballRadius, Px(450)},
                         vx \in {-Px(20), -Px(9)}}
  \cup {BallAt(Px(25), Px(300), -Px(18), -Px(2)),
        BallAt(Px(20), Px(412), -Px(15), 0),
        BallAt(Px(5), Px(445), 0, -Px(12)),
        BallAt(Px(30), Px(395), -Px(10), Px(6))}

\* goal contest: balls in open play
SoccerFieldBalls ==
  {BallAt(Px(500), Px(20), Px(2), -Px(15)),
   BallAt(Px(500), Px(530), Px(3), Px(12)),
   BallAt(Px(300), Px(300), Cx(1555), Cx(1555)),
   BallAt(Px(300), Px(300), -Px(22), 0)}

\* balls about to meet a slime standing at x: on top, stomp and side contacts
BallsOver(x) ==
  {BallAt(x + dx, groundY - Px(58), 0, Px(5)) : dx \in {-Px(4), 0, Px(4)}}
  \cup {BallAt(x + dx, groundY - Px(55), 0, Px(5)) : dx \in {-Px(20), Px(20)}}
  \cup {BallAt(x + dx, groundY - Px(40), 0, Px(2)) : dx \in {-Px(45), Px(45)}}

SoccerScenes ==
  {Scene("SOCCER", SlimeReset(TRUE), SlimeReset(FALSE), b, 0, 0) :
     b \in SoccerLeftBalls \cup {MirrorBall(c) : c \in SoccerLeftBalls} \cup SoccerFieldBalls}
  \cup {Scene("SOCCER", SlimeReset(TRUE), Ground(Px(800)), b, 0, 0) : b \in BallsOver(Px(800))}
  \cup {Scene("SOCCER", Air(Px(200), 3), SlimeReset(FALSE), b, 0, 0) :
          b \in {BallAt(Px(220), Air(Px(200), 3).y - Px(55), 0, Px(5)),
                 BallAt(Px(245), Air(Px(200), 3).y - Px(40), 0, Px(5))}}
  \cup {Scene("SOCCER", Ground(Px(456)), Ground(Px(544)), BallAt(Px(500), Px(510), 0, Px(3)), 0, 0),
        Scene("SOCCER", SlimeReset(TRUE), SlimeReset(FALSE),
              BallAt(Px(6), Px(450), -Px(20), 0), 0, winningScore - 1),
        Scene("SOCCER", SlimeReset(TRUE), SlimeReset(FALSE),
              BallAt(Px(994), Px(450), Px(20), 0), 2, 1)}

\* net contest: balls at the floor, the side walls, the net post and the net cap
VolleyballLeftBalls ==
  {BallAt(Px(300), Px(530), Px(2), Px(10)),
   BallAt(Px(20), Px(300), -Px(15), 0),
   BallAt(Px(470), Px(500), Px(12), 0),
   BallAt(Px(470), Px(530), Px(12), Px(10)),
   BallAt(Px(495), Px(452), Px(1), Px(8)),
   BallAt(Px(470), Px(440), Px(10), Px(10)),
   BallAt(Px(478), Px(473), Px(15), Px(7)),
   BallAt(Cx(47912), Cx(46887), Cx(1197), Cx(1194)),
   BallAt(Px(476), Px(478), Px(6), Px(2)),
   BallAt(Px(300), Px(20), Px(2), -Px(15))}

VolleyballScenes ==
  {Scene("VOLLEYBALL", SlimeReset(TRUE), SlimeReset(FALSE), b, 1, 2) :
     b \in VolleyballLeftBalls \cup {MirrorBall(c) : c \in VolleyballLeftBalls}}
  \cup {Scene("VOLLEYBALL", Ground(Px(200)), SlimeReset(FALSE), b, 0, 0) : b \in BallsOver(Px(200))}
  \cup {Scene("VOLLEYBALL", Ground(netX - halfNetW - slimeRadius), SlimeReset(FALSE), b, 0, 0) :
          b \in {BallAt(Px(470), Px(495), 0, Px(3)), BallAt(Px(485), Px(505), -Px(2), Px(3))}}
  \cup {Scene("VOLLEYBALL", Air(netX - halfNetW - slimeRadius, 4), SlimeReset(FALSE),
              BallAt(Px(480), Px(470), 0, Px(4)), 0, 0),
        Scene("VOLLEYBALL", SlimeReset(TRUE), SlimeReset(FALSE),
              BallAt(Px(700), Px(530), Px(2), Px(10)), winningScore - 1, 0)}

Scenes == {Kickoff("SOCCER"), Kickoff("VOLLEYBALL"), ServeBy2} \cup SoccerScenes \cup VolleyballScenes

\* the live match (Game and its slimes and ball), the clock, and what the last
\* step did
VARIABLES gameMode, p1, p2, ball, score1, score2, server, running, now, ev, pts, ticks

\* history: has a slime touched the ball since the ball was last reset
VARIABLE touched

\* the snapshot objects allocated so far (heap[1] is the caller's) and the
\* simulate calls made on them
VARIABLES heap, calls

matchVars ==
  <<gameMode, p1, p2, ball, score1, score2, server, running, ev, pts, ticks, touched>>

rolloutVars == <<heap, calls>>

\* the outcome of one contact resolved twice, for the slime as it moves and for
\* the same slime standing still; and the decision record of one call of
\* pickPlanByRollout (<<>>: none yet)
VARIABLES hit, decision

\* the key codes that were down in the last step (where a run records them)
VARIABLE keys

\* the frame loop of Game.startLoop: which of the file's two definitions of
\* the class runs (build), its lastTime and accumulator, and the number of
\* update calls (subSteps) and the capped deltaTime of the last frame
VARIABLE loop

\* player 2's engine (SoccerAI, VolleyballAI or AIPIDChase): its private
\* fields, and what its last getInput call saw on entry, left behind on
\* return, and emitted (<<>>: no engine)
VARIABLE ai

\* the trajectory simulator run beside the live ball: the BallSimState it
\* holds, the steps it has made and the outcome it returned (<<>>: not run)
VARIABLE sim

\* InputHandler.activeInputs, the map from key code to the set of sources that
\* hold it; GamepadInput.gamepadIndex (-1: null) and the pads
\* navigator.getGamepads() lists; and, as history, the <<source, code>> pairs
\* whose latest event was a press, and the last call of InputHandler.set with
\* whether the source held the code before it (<<>>: none yet)
VARIABLES activeInputs, gamepadIndex, gamepads, pressed, lastSet

auxVars == <<sim, activeInputs, gamepadIndex, gamepads, pressed, lastSet>>

probeVars == <<hit, decision, keys, loop, ai, auxVars>>

vars == <<matchVars, now, rolloutVars, probeVars>>

\* the match in the scene s, about to take its first step
MatchIn(s) ==
  /\ gameMode = s.mode
  /\ now = s.now
  /\ p1 = s.p1 /\ p2 = s.p2 /\ ball = s.ball
  /\ score1 = s.score1 /\ score2 = s.score2 /\ server = s.server
  /\ running = TRUE
  /\ ev = {} /\ pts = <<>> /\ ticks = 0
  /\ touched = s.touched

\* no decision engine at work
NoRollouts == heap = <<>> /\ calls = <<>>

\* no contact resolved apart from the match, no decision taken
\* no simulator beside the ball; a new InputHandler, no pad plugged in
NoAux ==
  /\ sim = <<>>
  /\ activeInputs = <<>> /\ gamepadIndex = -1 /\ gamepads = {} /\ pressed = {} /\ lastSet = <<>>

NoProbes ==
  hit = <<>> /\ decision = <<>> /\ keys = {} /\ loop = <<>> /\ ai = <<>> /\ NoAux

Init == NoRollouts /\ NoProbes /\ \E s \in Scenes : MatchIn(s)

LiveWorld ==
  [mode |-> gameMode, p1 |-> p1, p2 |-> p2, ball |-> ball,
   g |-> [live |-> TRUE, score1 |-> score1, score2 |-> score2, server |-> server,
          running |-> running, lastScore |-> 0],
   ev |-> {}, pts |-> <<>>]

\* the update brought an airborne slime s down on the ground line, as q
Landed(s, q) == s.y < groundY /\ q.y = groundY

\* Game.update with no AI: both slimes read the shared input handler; the
\* landings of the slime updates are recorded with the ball's events
GameUpdate(w, input, t) ==
  LET q1 == SlimeUpdate(w.p1, TRUE, w.mode, input)
      q2 == SlimeUpdate(w.p2, FALSE, w.mode, input)
      u == BallUpdate([w EXCEPT !.p1 = q1, !.p2 = q2], t)
  IN [u EXCEPT !.ev = @ \cup (IF Landed(w.p1, q1) THEN {"land1"} ELSE {})
                        \cup (IF Landed(w.p2, q2) THEN {"land2"} ELSE {})]

\* the key sets tried on a step: each player alone (still, left, right, jump,
\* both lateral keys, a running jump) and both players at once
Inputs ==
  {{}, {"KeyA"}, {"KeyD"}, {"KeyW"}, {"KeyA", "KeyD"}, {"KeyD", "KeyW"},
   {"ArrowLeft"}, {"ArrowRight"}, {"ArrowUp"}, {"ArrowLeft", "ArrowRight"},
   {"ArrowLeft", "ArrowUp"}, {"KeyD", "ArrowLeft"}, {"KeyW", "ArrowUp"},
   {"KeyA", "KeyW", "ArrowRight", "ArrowUp"}}

\* one fixed physics step of the loop (Game.update), with the keys that are down
StepLive(input) ==
  \E w \in {GameUpdate(LiveWorld, input, now)} :
     /\ p1' = w.p1 /\ p2' = w.p2 /\ ball' = w.ball
     /\ score1' = w.g.score1 /\ score2' = w.g.score2
     /\ server' = w.g.server /\ running' = w.g.running
     /\ ev' = w.ev /\ pts' = w.pts
     /\ touched' = IF w.pts # <<>> /\ w.g.running THEN FALSE
                   ELSE touched \/ w.ev \cap {"hit1", "hit2"} # {}
     /\ ticks' = ticks + 1
     /\ UNCHANGED <<gameMode, now, rolloutVars>>

Step(input) == StepLive(input) /\ UNCHANGED probeVars

Tick ==
  /\ running
  /\ ticks < MaxTicks
  /\ \E input \in Inputs : Step(input)

\* the wall clock advances between steps
Elapse ==
  /\ now < MaxNow
  /\ now' = now + ClockStep
  /\ UNCHANGED <<matchVars, rolloutVars, probeVars>>

Next == Tick \/ Elapse

Spec == Init /\ [][Next]_vars

-----------------------------------------------------------------------------
(* The driven game: steps under every combination of the six keys, the keys
   of each step recorded *)

MaxDriveTicks == 2

DriveInputs == SUBSET {"KeyA", "KeyD", "KeyW", "ArrowLeft", "ArrowRight", "ArrowUp"}

\* the kickoff and the serve with the freeze window over, and slimes about to
\* come down from a jump
DriveScenes ==
  {[Kickoff("SOCCER") EXCEPT !.now = MaxNow], [Kickoff("VOLLEYBALL") EXCEPT !.now = MaxNow],
   Scene("SOCCER", Air(Px(200), 48), Air(Px(800), 49), BallAt(Px(500), Px(300), 0, 0), 0, 0)}

InitDrive == NoRollouts /\ NoProbes /\ \E s \in DriveScenes : MatchIn(s)

Drive ==
  /\ running
  /\ ticks < MaxDriveTicks
  /\ \E input \in DriveInputs : StepLive(input) /\ keys' = input
  /\ UNCHANGED <<hit, decision, loop, ai, auxVars>>

NextDrive == Drive

SpecDrive == InitDrive /\ [][NextDrive]_vars

-----------------------------------------------------------------------------
(* The frame loop (Game.startLoop): each animation frame adds the time since
   the last frame to an accumulator and runs one update per timeStep in it.
   Times are in thirds of a millisecond, so that timeStep = 1000 / 60 ms is
   the integer 50. *)

\* n milliseconds
Ms(n) == 3 * n

\* Game.timeStep
timeStep == Ms(1000) \div 60

\* Game.maxSubStepsPerFrame (first definition of the class only)
maxSubStepsPerFrame == 3

\* the cap on deltaTime
maxDeltaTime == Ms(100)

\* frames explored from each initial state
MaxFrames == 2

\* the time between two animation frames: the same timestamp twice, 120 Hz,
\* 60 Hz, three slow frames, a frame after a stall longer than the cap
FrameGaps == {0, Ms(8), timeStep, Ms(56), Ms(70), Ms(100), Ms(250)}

\* Game.update as the loop calls it: nothing when the match is not running.
\* r = [w, touched, ticks]
UpdateLive(r, input, t) ==
  IF ~r.w.g.running THEN r
  ELSE CHOOSE next \in
         {[w |-> u,
           touched |-> IF u.pts # <<>> /\ u.g.running THEN FALSE
                       ELSE r.touched \/ u.ev \cap {"hit1", "hit2"} # {},
           ticks |-> r.ticks + 1] :
            u \in {GameUpdate([r.w EXCEPT !.ev = {}, !.pts = <<>>], input, t)}} : TRUE

\* n calls of update in a row
RECURSIVE Updates(_, _, _, _)
Updates(r, n, input, t) ==
  IF n = 0 THEN r
  ELSE CHOOSE res \in {Updates(h, n - 1, input, t) : h \in {UpdateLive(r, input, t)}} : TRUE

\* startLoop, first definition of the class: the loop callback's arithmetic
\* for the frame at the given timestamp
LoopCapped(l, timestamp) ==
  LET deltaTime == Min(timestamp - l.lastTime, maxDeltaTime)
      acc == l.accumulator + deltaTime
      subSteps == IF acc < timeStep THEN 0 ELSE Min(acc \div timeStep, maxSubStepsPerFrame)
  IN [l EXCEPT !.lastTime = timestamp, !.deltaTime = deltaTime, !.subSteps = subSteps,
               !.accumulator = IF subSteps = maxSubStepsPerFrame THEN 0
                               ELSE acc - subSteps * timeStep]

\* startLoop, second definition of the class
LoopUncapped(l, timestamp) ==
  LET deltaTime == Min(timestamp - l.lastTime, maxDeltaTime)
      acc == l.accumulator + deltaTime
      subSteps == IF acc < timeStep THEN 0 ELSE acc \div timeStep
  IN [l EXCEPT !.lastTime = timestamp, !.deltaTime = deltaTime, !.subSteps = subSteps,
               !.accumulator = acc - subSteps * timeStep]

LoopScenes ==
  {[Kickoff("SOCCER") EXCEPT !.now = MaxNow], [Kickoff("VOLLEYBALL") EXCEPT !.now = MaxNow]}

\* the keys held during a frame
LoopInputs == {{}, {"KeyD", "ArrowLeft"}, {"KeyW", "ArrowUp"}}

\* the loop has been started on a running match: lastTime and accumulator as
\* constructed, by either definition of the class
InitLoop ==
  /\ NoRollouts
  /\ hit = <<>> /\ decision = <<>> /\ keys = {} /\ ai = <<>> /\ NoAux
  /\ \E s \in LoopScenes : MatchIn(s)
  /\ \E build \in {1, 2} :
       loop = [build |-> build, lastTime |-> 0, accumulator |-> 0,
               subSteps |-> 0, deltaTime |-> 0, frames |-> 0]

\* one animation frame: the callback `loop`
Frame ==
  /\ loop.frames < MaxFrames
  /\ \E gap \in FrameGaps, input \in LoopInputs :
       \E l \in {IF loop.build = 1 THEN LoopCapped(loop, loop.lastTime + gap)
                  ELSE LoopUncapped(loop, loop.lastTime + gap)} :
         \E r \in {Updates([w |-> [LiveWorld EXCEPT !.ev = ev, !.pts = pts],
                            touched |-> touched, ticks |-> ticks],
                           l.subSteps, input, now)} :
           /\ loop' = [l EXCEPT !.frames = @ + 1]
           /\ keys' = input
           /\ p1' = r.w.p1 /\ p2' = r.w.p2 /\ ball' = r.w.ball
           /\ score1' = r.w.g.score1 /\ score2' = r.w.g.score2
           /\ server' = r.w.g.server /\ running' = r.w.g.running
           /\ ev' = r.w.ev /\ pts' = r.w.pts
           /\ touched' = r.touched
           /\ ticks' = r.ticks
  /\ UNCHANGED <<gameMode, now, rolloutVars, hit, decision, ai, auxVars>>

SpecLoop == InitLoop /\ [][Frame]_vars

-----------------------------------------------------------------------------
(* Slimes at the edges of their court: within one step of a side wall or of
   the net *)

CourtScenes ==
  {Scene(mode, Ground(x1), Ground(x2), BallAt(Px(500), Px(200), 0, 0), 0, 0) :
     mode \in {"SOCCER", "VOLLEYBALL"},
     x1 \in {slimeRadius + Px(3), netX - halfNetW - slimeRadius - Px(5)},
     x2 \in {netX + halfNetW + slimeRadius + Px(5), internalWidth - slimeRadius - Px(3)}}

InitCourt == NoRollouts /\ NoProbes /\ \E s \in CourtScenes : MatchIn(s)

SpecCourt == InitCourt /\ [][Tick]_vars

-----------------------------------------------------------------------------
(* The freeze after a reset: the kickoff and the serves, and a serve whose   *)
(* server is k updates into a jump under the frozen ball, the clock one      *)
(* step into the freeze.                                                     *)

FrozenServe(k) ==
  [Kickoff("VOLLEYBALL") EXCEPT !.p1 = Air(SlimeReset(TRUE).x, k), !.now = ClockStep]

FreezeScenes ==
  {Kickoff("SOCCER"), Kickoff("VOLLEYBALL"), ServeBy2} \cup {FrozenServe(k) : k \in {5, 6, 7}}

InitFreeze == NoRollouts /\ NoProbes /\ \E s \in FreezeScenes : MatchIn(s)

SpecFreeze == InitFreeze /\ [][Next]_vars

-----------------------------------------------------------------------------
(* Net contest, the ball coming down on the ground: in either half, while    *)
(* leaving through a side wall, while crossing the edge of the net post and  *)
(* beside a slime, at an early score and one point from the end of the match.*)

FloorBalls ==
  {BallAt(x, groundY - ballRadius - Px(3), vx, Px(8)) :
     x \in {Px(300), Px(700)}, vx \in {-Px(2), Px(2)}}
  \cup {BallAt(ballRadius + Px(2), groundY - ballRadius - Px(3), -Px(10), Px(8)),
        BallAt(internalWidth - ballRadius - Px(2), groundY - ballRadius - Px(3), Px(10), Px(8)),
        BallAt(leftEdge - Px(1), groundY - ballRadius - Px(3), Px(3), Px(8)),
        BallAt(rightEdge + Px(1), groundY - ballRadius - Px(3), -Px(3), Px(8)),
        BallAt(Px(250), groundY - ballRadius - Px(3), -Px(2), Px(8)),
        BallAt(Px(300), groundY - ballRadius - Px(30), Px(2), Px(8))}

FloorScenes ==
  {Scene("VOLLEYBALL", SlimeReset(TRUE), SlimeReset(FALSE), b, s1, s2) :
     b \in FloorBalls, s1 \in {0, winningScore - 1}, s2 \in {1, winningScore - 1}}

InitFloor == NoRollouts /\ NoProbes /\ \E s \in FloorScenes : MatchIn(s)

SpecFloor == InitFloor /\ [][Tick]_vars

-----------------------------------------------------------------------------
(* Match point: one player or both are one point from winningScore and the  *)
(* ball is about to score, on this step or the next.                         *)

MatchPointBalls ==
  {BallAt(Px(6), Px(450), -Px(20), 0), BallAt(Px(20), Px(450), -Px(20), 0)}

MatchPointScenes ==
  {s \in FloorScenes : s.score1 = winningScore - 1 \/ s.score2 = winningScore - 1}
  \cup {Scene("SOCCER", SlimeReset(TRUE), SlimeReset(FALSE), b, s1, s2) :
          b \in MatchPointBalls \cup {MirrorBall(c) : c \in MatchPointBalls},
          s1 \in {winningScore - 2, winningScore - 1},
          s2 \in {winningScore - 2, winningScore - 1}}

InitMatchPoint == NoRollouts /\ NoProbes /\ \E s \in MatchPointScenes : MatchIn(s)

\* Game.update called by the frame loop after the match has ended: it returns
\* at once
IdleTick ==
  /\ ~running
  /\ ticks < MaxTicks
  /\ ticks' = ticks + 1
  /\ UNCHANGED <<gameMode, p1, p2, ball, score1, score2, server, running, ev, pts, touched>>
  /\ UNCHANGED <<now, rolloutVars, probeVars>>

NextMatchPoint == Tick \/ IdleTick

SpecMatchPoint == InitMatchPoint /\ [][NextMatchPoint]_vars

-----------------------------------------------------------------------------
(* Degenerate contacts: steps that carry the ball's centre exactly onto the
   centre of a slime, of a crossbar or of the net cap *)

\* a ball whose next update, from the velocity (vx, vy), carries it to (cx, cy)
BallInto(cx, cy, vx, vy) ==
  LET v == Accelerate(BallAt(0, 0, vx, vy))
  IN BallAt(cx - v.vx, cy - v.vy, vx, vy)

\* where a slime Air(x, k) is after one more update with no key down
UpFrom(x, k) == Air(x, k + 1)

DegenerateScenes ==
  {Scene(mode, Air(Px(300), 20), SlimeReset(FALSE),
         BallInto(UpFrom(Px(300), 20).x, UpFrom(Px(300), 20).y, vx, -Px(5)), 0, 0) :
     mode \in {"SOCCER", "VOLLEYBALL"}, vx \in {0, Px(3)}}
  \cup {Scene(mode, SlimeReset(TRUE), Air(Px(700), 8),
               BallInto(UpFrom(Px(700), 8).x, UpFrom(Px(700), 8).y, -Px(4), -Px(12)), 0, 0) :
          mode \in {"SOCCER", "VOLLEYBALL"}}
  \cup {Scene("SOCCER", SlimeReset(TRUE), SlimeReset(FALSE), b, 0, 0) :
          b \in {BallInto(0, goalTopY, -Px(10), -Px(3)),
                 BallInto(0, goalTopY, -Px(2), Px(9)),
                 BallInto(internalWidth, goalTopY, Px(10), -Px(3)),
                 BallInto(internalWidth, goalTopY, Px(15), Px(6))}}
  \cup {Scene("VOLLEYBALL", SlimeReset(TRUE), SlimeReset(FALSE), b, 0, 0) :
          b \in {BallInto(netX, capCenterY, Px(12), 0),
                 BallInto(netX, capCenterY, -Px(9), -Px(6)),
                 BallInto(netX, capCenterY, 0, -Px(14))}}

InitDegenerate == NoRollouts /\ NoProbes /\ \E s \in DegenerateScenes : MatchIn(s)

SpecDegenerate == InitDegenerate /\ [][Tick]_vars

-----------------------------------------------------------------------------
(* The long game: from the kickoff / serve, many steps with few key choices  *)
(* (everybody still, or everybody jumping), so that whole jump arcs and the   *)
(* whole fall of the served ball are run.                                    *)

MaxLongTicks == 52

LongInputs == {{}, {"KeyW", "ArrowUp"}}

InitLong ==
  NoRollouts /\ NoProbes /\ \E s \in {Kickoff("SOCCER"), Kickoff("VOLLEYBALL"), ServeBy2} : MatchIn(s)

TickLong ==
  /\ running
  /\ ticks < MaxLongTicks
  /\ \E input \in LongInputs : Step(input)

NextLong == TickLong \/ Elapse

SpecLong == InitLong /\ [][NextLong]_vars

-----------------------------------------------------------------------------
(* The decision engine's use of the rollout simulator: it takes a snapshot   *)
(* of the live world and calls simulate on it, several times, while the      *)
(* clock runs (and the live ball's freeze window passes).                    *)

MaxCalls == 2

\* the (steps, plan, opts.p1Plan) a call is made with
Call(steps, action, jump, p1Plan) ==
  [steps |-> steps, plan |-> [action |-> action, jumpOnStep0 |-> jump], p1Plan |-> p1Plan]

P1Plan(action, jump) == [action |-> action, jumpOnStep0 |-> jump, given |-> TRUE]

RolloutArgs ==
  {Call(0, "NONE", FALSE, NoPlan),
   Call(2, "LEFT", TRUE, NoPlan),
   Call(40, "LEFT", TRUE, NoPlan),
   Call(12, "RIGHT", FALSE, P1Plan("RIGHT", TRUE)),
   Call(40, "RIGHT", TRUE, P1Plan("LEFT", FALSE))}

\* a simulate that runs on the caller's object and returns it as the end
SimulateInPlace(h, ref, mode, a, t) ==
  CHOOSE out \in
    {[heap |-> [h EXCEPT ![ref] = res.end],
      result |-> [verdict |-> res.verdict, step |-> res.step, end |-> ref,
                  metrics |-> res.metrics]] :
       res \in {Simulate(mode, h[ref], a.steps, a.plan, a.p1Plan, t)}} : TRUE

\* simulate(snapshot, steps, plan, opts) on the snapshot object at ref: the
\* result's end snapshot is a new object literal, allocated after the others
SimulateAt(h, ref, mode, a, t) ==
  CHOOSE out \in
    {[heap |-> Append(h, res.end),
      result |-> [verdict |-> res.verdict, step |-> res.step, end |-> Len(h) + 1,
                  metrics |-> res.metrics]] :
       res \in {Simulate(mode, h[ref], a.steps, a.plan, a.p1Plan, t)}} : TRUE

\* the worlds the engine is asked about
RolloutScenes ==
  {Kickoff("SOCCER"), Kickoff("VOLLEYBALL")}
  \cup {Scene("SOCCER", SlimeReset(TRUE), SlimeReset(FALSE), b, 0, 0) :
          b \in {BallAt(Px(20), groundY - ballRadius, -Px(20), 0),
                 BallAt(Px(980), Px(450), Px(9), 0),
                 BallAt(Px(760), groundY - Px(55), 0, Px(5))}}
  \cup {Scene("SOCCER", SlimeReset(TRUE), Air(Px(800), 40),
               BallAt(Px(500), Px(200), 0, 0), 0, 0)}
  \cup {Scene("VOLLEYBALL", SlimeReset(TRUE), SlimeReset(FALSE), b, 0, 0) :
          b \in {BallAt(Px(300), Px(530), Px(2), Px(10)),
                 BallAt(Px(700), Px(500), Px(2), Px(10)),
                 BallAt(Px(478), Px(473), Px(15), Px(7))}}

\* the engine has built its snapshot literal from the live objects
InitRollout ==
  /\ \E s \in RolloutScenes : MatchIn([s EXCEPT !.now = 0])
  /\ heap = <<SnapshotOf(LiveWorld)>>
  /\ calls = <<>>
  /\ NoProbes

\* one call of simulate on the caller's snapshot
Rollout ==
  /\ Len(calls) < MaxCalls
  /\ \E a \in RolloutArgs :
       \E r \in {SimulateAt(heap, 1, gameMode, a, now)} :
         /\ heap' = r.heap
         /\ calls' = Append(calls, [args |-> a, at |-> now, given |-> heap[1],
                                    liveFrozen |-> now < ball.frozenUntil,
                                    result |-> r.result])
  /\ UNCHANGED <<matchVars, now, probeVars>>

NextRollout == Rollout \/ Elapse

SpecRollout == InitRollout /\ [][NextRollout]_vars

-----------------------------------------------------------------------------
(* One slime contact, resolved for the moving slime and for the same slime at
   rest: checkSlimeCollision and the variant's resolveSlimeHit as functions
   of the contact geometry *)

\* the contact offsets explored: multiples of HitStep px up to MaxHitCells
MaxHitCells == 31

HitStep == 2

\* updates into a jump at which the striking slime is caught
MaxHitJump == 2

HitOffsets == {Px(HitStep) * k : k \in -MaxHitCells .. MaxHitCells}

\* the striking slime: player 1 holding right, on the ground or in a jump
Strikers ==
  {[q EXCEPT !.vx = LateralVelocity(FALSE, TRUE)] :
     q \in {Ground(Px(300))} \cup {Air(Px(300), k) : k \in 1 .. MaxHitJump}}

\* a ball at rest in contact with player 1, who moves right
InitHit ==
  /\ NoRollouts /\ NoProbes
  /\ \E mode \in {"SOCCER", "VOLLEYBALL"}, q \in Strikers, dx \in HitOffsets, dy \in HitOffsets :
       /\ Touches(BallAt(q.x + dx, q.y + dy, 0, 0), q)
       /\ MatchIn([Kickoff(mode) EXCEPT !.p1 = q, !.ball = BallAt(q.x + dx, q.y + dy, 0, 0),
                                        !.touched = TRUE])

\* ball.checkSlimeCollision(p1), and the same call on a p1 with vx = 0
Strike ==
  /\ hit = <<>>
  /\ hit' = [dx |-> ball.x - p1.x, dy |-> ball.y - p1.y,
             moving |-> SlimeContact(gameMode, ball, p1),
             still |-> SlimeContact(gameMode, ball, [p1 EXCEPT !.vx = 0])]
  /\ UNCHANGED <<matchVars, now, rolloutVars, decision, keys, loop, ai, auxVars>>

NextHit == Strike

SpecHit == InitHit /\ [][NextHit]_vars

\* headers: the ball comes down on a slime that stands still under it or
\* rises or falls straight, within a few px of the centre line, having been
\* on either side of it or on it an update earlier
HeaderOffsets == {Px(k) : k \in -4 .. 4}

HeaderHeights == {-Px(60), -Px(30), -Px(3), -Px(1), 0}

HeaderDrifts == {-Px(6), -Px(1), 0, Px(1), Px(6)}

Headers == {Ground(Px(300))} \cup {Air(Px(300), k) : k \in {1, 40}}

InitHeader ==
  /\ NoRollouts /\ NoProbes
  /\ \E q \in Headers, dx \in HeaderOffsets, dy \in HeaderHeights, back \in HeaderDrifts :
       /\ Touches(BallAt(q.x + dx, q.y + dy, 0, 0), q)
       /\ MatchIn([Kickoff("SOCCER") EXCEPT
                     !.p1 = q,
                     !.ball = [BallAt(q.x + dx, q.y + dy, 0, 0) EXCEPT !.prevX = q.x + dx + back],
                     !.touched = TRUE])

SpecHeader == InitHeader /\ [][Strike]_vars

-----------------------------------------------------------------------------
(* The decision engines: SoccerAI.pickPlanByRollout and
   VolleyballAI.pickPlanByRollout.  Scores are kept in thousandths of a
   point, so that every weight of the heuristics is a whole number on the
   1/100 px grid. *)

\* a score of n points
Pts(n) == n * 1000

\* the weight w10/10 applied to a length or velocity q
Weigh(w10, q) == w10 * q

\* SoccerAI.velAmbiguous
velAmbiguous == 35

\* VolleyballAI.pickPlanByRollout: horizon
volleyballHorizon == 55

\* VolleyballAI.verticalBounceXThreshold
verticalBounceXThreshold == Mul(slimeRadius, 10, 100)

Plan(action, jump) == [action |-> action, jumpOnStep0 |-> jump]

\* candidate plans that include the jump variants whatever the wish
CandidatesWithJumps(prefersJump) ==
  <<Plan("LEFT", FALSE), Plan("RIGHT", FALSE), Plan("NONE", FALSE),
    Plan("LEFT", TRUE), Plan("RIGHT", TRUE), Plan("NONE", TRUE)>>

\* the candidate plans, in the order of the array
Candidates(prefersJump) ==
  <<Plan("LEFT", FALSE), Plan("RIGHT", FALSE), Plan("NONE", FALSE)>>
  \o (IF prefersJump
      THEN <<Plan("LEFT", TRUE), Plan("RIGHT", TRUE), Plan("NONE", TRUE)>>
      ELSE <<>>)

\* SoccerAI.pickPlanByRollout: what it reads off the snapshot before the loop
SoccerNow(snapshot) ==
  LET right == snapshot.ball.vx > velAmbiguous
      behind == snapshot.ball.x > snapshot.p2.x + Px(6)
      inAir == snapshot.ball.y < groundY - Px(60)
      leftOfP2 == snapshot.ball.x < snapshot.p2.x - Px(10)
  IN [ballMovingRightNow |-> right,
      ballMovingLeftNow |-> snapshot.ball.vx < -velAmbiguous,
      ballBehindNow |-> behind,
      ballIsInAirNow |-> inAir,
      ballIsLowNow |-> snapshot.ball.y > groundY - Px(40),
      overheadToOwnGoalCase |-> right /\ inAir /\ leftOfP2 /\ ~behind]

\* SoccerAI.pickPlanByRollout: horizon
SoccerHorizon(f) ==
  IF f.overheadToOwnGoalCase THEN 170 ELSE IF f.ballMovingRightNow THEN 130 ELSE 60

\* SoccerAI.pickPlanByRollout: the score the loop body gives candidate c, whose
\* rollout returned res
SoccerScore(snapshot, aiMode, f, c, res) ==
  LET gap == res.end.ball.x - res.end.p2.x
  IN IF res.verdict = "loss"
     THEN -Pts(1000000) + Pts(res.step) - Weigh(1, Abs(gap))
     ELSE LET s0 == IF res.verdict = "win"
                    THEN Pts(100000) - Pts(res.step)
                    ELSE Weigh(2000, -res.end.ball.vx)
                         + Weigh(3, internalWidth - res.end.ball.x)
              s1 == s0 - Weigh(40, Abs(gap))
              s2 == IF f.ballBehindNow /\ c.action = "LEFT" THEN s1 - Pts(1200) ELSE s1
              s3 == IF f.overheadToOwnGoalCase
                    THEN s2 + (IF c.action = "LEFT" THEN -Pts(1800)
                               ELSE IF c.action = "RIGHT" THEN Pts(520) ELSE Pts(120))
                    ELSE s2
              s4 == IF f.ballMovingRightNow
                    THEN s3 + Weigh(100, Max(0, -gap)) - Weigh(220, Max(0, gap))
                         - (IF f.ballIsInAirNow THEN Weigh(30, Abs(gap)) ELSE 0)
                         + (IF f.ballIsLowNow /\ c.jumpOnStep0 THEN Pts(180) ELSE 0)
                    ELSE s3
              s5 == IF aiMode = "ATTACK" /\ f.ballMovingLeftNow
                    THEN s4 - Weigh(40, Max(0, res.end.p2.x - snapshot.p2.x))
                    ELSE s4
          IN IF c.jumpOnStep0 THEN s5 - Pts(40) ELSE s5

\* VolleyballAI.pickPlanByRollout: the score the loop body gives candidate c
VolleyballScore(c, res) ==
  IF res.verdict = "loss"
  THEN -Pts(1000000) + Pts(res.step)
  ELSE LET endBallOnOppSide == res.end.ball.x < netX
           endHeight == groundY - res.end.ball.y
           endDx == res.end.ball.x - res.end.p2.x
           toOpp == Abs(res.end.ball.x - res.end.p1.x)
           s0 == IF res.verdict = "win"
                 THEN Pts(100000) - Pts(res.step) + Weigh(140, toOpp)
                 ELSE (IF endBallOnOppSide THEN Pts(2600) ELSE -Pts(900))
                      + Weigh(1800, -res.end.ball.vx)
                      + (IF ~endBallOnOppSide
                         THEN -Weigh(220, Max(0, Px(95) - endHeight))
                         ELSE Weigh(22, toOpp))
           s1 == s0 - Weigh(38, Abs(endDx))
           s2 == s1 - Pts(res.metrics.endNoCrossTicks * res.metrics.endNoCrossTicks * 18)
                    - Pts(res.metrics.maxNoCrossTicks * res.metrics.maxNoCrossTicks * 4)
                    - (IF res.metrics.netCrossings = 0 THEN Pts(9000) ELSE 0)
                    + Pts(res.metrics.netCrossings * 650)
           juggle == /\ ~endBallOnOppSide
                     /\ endHeight > Px(40)
                     /\ Abs(endDx) < Mul(verticalBounceXThreshold, 12, 10)
                     /\ Abs(res.end.ball.vx) < Cx(35)
           s3 == IF juggle
                 THEN s2 - Pts(20000) - (IF endHeight > Px(110) THEN Pts(5000) ELSE 0)
                 ELSE s2
       IN IF c.jumpOnStep0 THEN s3 - Pts(35) ELSE s3

\* the score of candidate c in a decision on this snapshot: its rollout over
\* the decision's horizon, then the loop body's arithmetic
ScoreOf(mode, snapshot, aiMode, c, p1Plan, t) ==
  IF mode = "SOCCER"
  THEN CHOOSE v \in {SoccerScore(snapshot, aiMode, SoccerNow(snapshot), c, res) :
                       res \in {Simulate(mode, snapshot, SoccerHorizon(SoccerNow(snapshot)),
                                         c, p1Plan, t)}} : TRUE
  ELSE CHOOSE v \in {VolleyballScore(c, res) :
                       res \in {Simulate(mode, snapshot, volleyballHorizon, c, p1Plan, t)}} : TRUE

\* the scores of candidates i .. Len(candidates), in order
RECURSIVE Scores(_, _, _, _, _, _, _)
Scores(mode, snapshot, aiMode, candidates, i, p1Plan, t) ==
  IF i > Len(candidates) THEN <<>>
  ELSE <<ScoreOf(mode, snapshot, aiMode, candidates[i], p1Plan, t)>>
       \o Scores(mode, snapshot, aiMode, candidates, i + 1, p1Plan, t)

\* what the loop body reads off the rollout of candidate c: the verdict, the
\* step, and the distance |end.ball.x - end.p2.x|
OutcomeOf(mode, snapshot, c, p1Plan, t) ==
  CHOOSE o \in
    {[verdict |-> res.verdict, step |-> res.step,
      gap |-> Abs(res.end.ball.x - res.end.p2.x)] :
       res \in {Simulate(mode, snapshot,
                         IF mode = "SOCCER" THEN SoccerHorizon(SoccerNow(snapshot))
                                            ELSE volleyballHorizon,
                         c, p1Plan, t)}} : TRUE

\* a loop that keeps the last of the candidates of equal score
RECURSIVE PickLoopLast(_, _, _, _)
PickLoopLast(scores, i, best, bestScore) ==
  IF i > Len(scores) THEN best
  ELSE IF bestScore = <<>> \/ scores[i] >= bestScore[1]
       THEN PickLoopLast(scores, i + 1, i, <<scores[i]>>)
       ELSE PickLoopLast(scores, i + 1, best, bestScore)

\* for (const c of candidates) { ... if (score > bestScore) { bestScore =
\* score; best = c; } }: the index of best after candidates i .. ; bestScore
\* is <<>> for -Infinity
RECURSIVE PickLoop(_, _, _, _)
PickLoop(scores, i, best, bestScore) ==
  IF i > Len(scores) THEN best
  ELSE IF bestScore = <<>> \/ scores[i] > bestScore[1]
       THEN PickLoop(scores, i + 1, i, <<scores[i]>>)
       ELSE PickLoop(scores, i + 1, best, bestScore)

\* pickPlanByRollout of the variant's engine, as a record of the decision:
\* the candidates, the score the loop body gives each of them, whether the
\* loop ran, and the plan returned.  The goal contest returns RIGHT without
\* a jump, before the loop, in the overheadToOwnGoalCase.
PickPlanByRollout(mode, w, aiMode, prefersJump, p1Plan, t) ==
  LET snapshot == SnapshotOf(w)
      candidates == Candidates(prefersJump)
      override == mode = "SOCCER" /\ SoccerNow(snapshot).overheadToOwnGoalCase
  IN CHOOSE d \in
       {[candidates |-> candidates, scores |-> scores, looped |-> ~override,
         plan |-> IF override THEN Plan("RIGHT", FALSE)
                  ELSE candidates[PickLoop(scores, 1, 1, <<>>)]] :
          scores \in {Scores(mode, snapshot, aiMode, candidates, 1, p1Plan, t)}} : TRUE

\* planFromInput(opponentInput, true)
PlanFromInput(input) ==
  [action |-> IF "KeyA" \in input /\ "KeyD" \notin input THEN "LEFT"
              ELSE IF "KeyD" \in input /\ "KeyA" \notin input THEN "RIGHT" ELSE "NONE",
   jumpOnStep0 |-> "KeyW" \in input,
   given |-> TRUE]

\* the opponent's keys at the decision
PickInputs == {{}, {"KeyD", "KeyW"}}

\* the mode getInput has settled on (only the goal contest's engine passes
\* it on to pickPlanByRollout)
AiModes(mode) == IF mode = "SOCCER" THEN {"CONTEST", "ATTACK"} ELSE {"RALLY"}

\* goal contest: a ball in the air left of player 2 and moving right (the
\* overheadToOwnGoalCase), and balls that are low, behind player 2, or moving left
SoccerPickScenes ==
  {Scene("SOCCER", SlimeReset(TRUE), Ground(Px(750)), b, 0, 0) :
     b \in {BallAt(Px(500), Px(150), Px(9), Px(6)),
            BallAt(Px(500), Px(300), Px(9), 0),
            BallAt(Px(500), Px(420), Px(15), 0),
            BallAt(Px(690), Px(300), Px(1), -Px(8)),
            BallAt(Px(700), Px(520), Px(6), 0),
            BallAt(Px(800), Px(400), Px(5), Px(2)),
            BallAt(Px(700), Px(480), -Px(6), -Px(4))}}
  \cup {Scene("SOCCER", SlimeReset(TRUE), Ground(Px(600)), b, 0, 0) :
          b \in {BallAt(Px(350), Px(150), Px(1), Px(6)),
                 BallAt(Px(350), Px(420), Px(15), 0),
                 BallAt(Px(540), Px(500), -Px(2), Px(3))}}
  \cup {Kickoff("SOCCER"),
        Scene("SOCCER", SlimeReset(TRUE), SlimeReset(FALSE),
              BallAt(Px(985), Px(500), Px(15), 0), 0, 0)}

\* net contest: the serve, and balls coming down on either side of the net
VolleyballPickScenes ==
  {Scene("VOLLEYBALL", SlimeReset(TRUE), SlimeReset(FALSE), b, 0, 0) :
     b \in {BallAt(Px(700), Px(300), Px(2), Px(4)),
            BallAt(Px(760), Px(420), -Px(3), Px(6)),
            BallAt(Px(850), Px(380), Px(4), Px(5)),
            BallAt(Px(300), Px(250), Px(9), -Px(4)),
            BallAt(Px(560), Px(200), Px(3), 0),
            BallAt(Px(980), Px(530), 0, Px(10))}}
  \cup {Kickoff("VOLLEYBALL"), ServeBy2}

PickScenes == SoccerPickScenes \cup VolleyballPickScenes

\* player 2's engine is about to be asked for its input
InitPick ==
  /\ NoRollouts /\ NoProbes
  /\ \E s \in PickScenes : MatchIn([s EXCEPT !.now = 0])

\* getInput's call of pickPlanByRollout on the live objects
Decide ==
  /\ decision = <<>>
  /\ \E aiMode \in AiModes(gameMode), prefersJump \in BOOLEAN, input \in PickInputs :
       \E d \in {PickPlanByRollout(gameMode, LiveWorld, aiMode, prefersJump,
                                   PlanFromInput(input), now)} :
         decision' = [aiMode |-> aiMode, p1Plan |-> PlanFromInput(input),
                      candidates |-> d.candidates, scores |-> d.scores,
                      outcomes |-> [i \in DOMAIN d.candidates |->
                                      OutcomeOf(gameMode, SnapshotOf(LiveWorld), d.candidates[i],
                                                PlanFromInput(input), now)],
                      looped |-> d.looped, plan |-> d.plan]
  /\ UNCHANGED <<matchVars, now, rolloutVars, hit, keys, loop, ai, auxVars>>

NextPick == Decide

SpecPick == InitPick /\ [][NextPick]_vars

-----------------------------------------------------------------------------
(* getInput of the three engines.  An engine a is the record of its private
   fields; touchingSinceTick 0 stands for null (tick is at least 1 in a call) *)

\* clamp
Clamp(v, lo, hi) == Max(lo, Min(hi, v))

\* VirtualInput: keys = {}, the state of a new one and the one clear() leaves
VirtualClear == [code \in {} |-> FALSE]

\* VirtualInput.setKey: keys[code] = down
VirtualSetKey(k, code, down) ==
  [c \in DOMAIN k \cup {code} |-> IF c = code THEN down ELSE k[c]]

\* VirtualInput.isDown, as the set of codes it is true of
VirtualDown(k) == {c \in DOMAIN k : k[c]}

\* setKey calls that hold ArrowRight down whenever a direction is wanted
SetArrowsBoth(k, right, left, up) ==
  VirtualSetKey(VirtualSetKey(VirtualSetKey(k, "ArrowRight", right \/ left), "ArrowLeft", left),
                "ArrowUp", up)

\* the three setKey calls that close getInput, for player 2's side, on the
\* keys record k that input.clear() left
SetArrows(k, right, left, up) ==
  VirtualSetKey(VirtualSetKey(VirtualSetKey(k, "ArrowRight", right), "ArrowLeft", left),
                "ArrowUp", up)

\* the codes among player 2's that a getInput call set to true
Wanted(right, left, up) ==
  (IF right THEN {"ArrowRight"} ELSE {}) \cup (IF left THEN {"ArrowLeft"} ELSE {})
  \cup (IF up THEN {"ArrowUp"} ELSE {})

\* the fields of a new engine; input is the keys record of its VirtualInput
NewEngine(kind) ==
  [kind |-> kind, tick |-> 0, moveDir |-> 0, lastDirChangeTick |-> 0,
   touchingSinceTick |-> 0, lastStrikeTick |-> -9999,
   wasFrozen |-> FALSE, servePhaseUntilTick |-> 0,
   integral |-> 0, prevError |-> 0, input |-> VirtualClear]

\* a direction state that switches as soon as the error asks for it
HysteresisUndebounced(a, tick, errorX, enter, exit, debounce) ==
  LET absErrorX == Abs(errorX)
      a1 == IF a.moveDir # 0 /\ absErrorX <= exit
            THEN [a EXCEPT !.moveDir = 0, !.lastDirChangeTick = tick] ELSE a
      a2 == IF a1.moveDir = 0 /\ absErrorX >= enter
            THEN [a1 EXCEPT !.moveDir = IF errorX > 0 THEN 1 ELSE -1,
                            !.lastDirChangeTick = tick]
            ELSE a1
      desiredDir == IF absErrorX >= enter THEN (IF errorX > 0 THEN 1 ELSE -1) ELSE 0
  IN IF a2.moveDir # 0 /\ desiredDir # 0 /\ desiredDir # a2.moveDir
     THEN [a2 EXCEPT !.moveDir = desiredDir, !.lastDirChangeTick = tick]
     ELSE a2

\* getInput: the smoothed direction state (stop, start from idle, debounced
\* switch), the same statements in the three engines
Hysteresis(a, tick, errorX, enter, exit, debounce) ==
  LET absErrorX == Abs(errorX)
      a1 == IF a.moveDir # 0 /\ absErrorX <= exit
            THEN [a EXCEPT !.moveDir = 0, !.lastDirChangeTick = tick] ELSE a
      a2 == IF a1.moveDir = 0 /\ absErrorX >= enter
            THEN [a1 EXCEPT !.moveDir = IF errorX > 0 THEN 1 ELSE -1,
                            !.lastDirChangeTick = tick]
            ELSE a1
      desiredDir == IF absErrorX >= enter THEN (IF errorX > 0 THEN 1 ELSE -1) ELSE 0
      wantsSwitch == a2.moveDir # 0 /\ desiredDir # 0 /\ desiredDir # a2.moveDir
  IN IF wantsSwitch /\ tick - a2.lastDirChangeTick >= debounce
     THEN [a2 EXCEPT !.moveDir = desiredDir, !.lastDirChangeTick = tick]
     ELSE a2

\* an engine that takes no account of its last strike
CanStrikeAlways(a, tick, strikeCooldownTicks) == TRUE

\* getInput: canStrike
CanStrike(a, tick, strikeCooldownTicks) == tick - a.lastStrikeTick >= strikeCooldownTicks

\* getInput: touchingSinceTick after the touch test
Touching(a, tick, canTouchBall) ==
  IF canTouchBall THEN (IF a.touchingSinceTick = 0 THEN tick ELSE a.touchingSinceTick)
  ELSE 0

\* SoccerAI.getInput up to the call of pickPlanByRollout: the mode, the
\* target and the jump wish, given the verdict of the neutral rollout
SoccerIntent(a, w, tick, likelyConcedeSoon) ==
  LET slime == w.p2
      opponent == w.p1
      b == w.ball
      ballHeightAboveGround == groundY - b.y
      selfDist == Hypot(b.x - slime.x, b.y - slime.y)
      oppDist == Hypot(b.x - opponent.x, b.y - opponent.y)
      ballMovingLeft == b.vx < -velAmbiguous
      ballMovingRight == b.vx > velAmbiguous
      aiCloser == selfDist + Px(6) < oppDist
      betweenOwnGoalAndBallNow == slime.x > b.x + Px(8)
      mode == IF ballMovingLeft /\ aiCloser THEN "ATTACK"
              ELSE IF betweenOwnGoalAndBallNow /\ (ballMovingRight \/ likelyConcedeSoon)
                   THEN "DEFEND" ELSE "CONTEST"
      canTouchBall == /\ ~HypotMore(b.x - slime.x, b.y - slime.y,
                                    slimeRadius + ballRadius + Px(18))
                      /\ ballHeightAboveGround <= Px(175)
      touching == Touching(a, tick, canTouchBall)
      target0 ==
        IF mode = "DEFEND"
        THEN Clamp(b.x + (IF b.x > Mul(internalWidth, 82, 100) THEN Px(35) ELSE Px(65)),
                   Mul(internalWidth, 52, 100), internalWidth - slimeRadius - Px(20))
        ELSE Clamp(b.x + (IF ballMovingRight THEN Px(55)
                          ELSE IF mode = "ATTACK" THEN Px(70) ELSE Px(45)),
                   slimeRadius + Px(10), internalWidth - slimeRadius - Px(10))
      timeTouchingTicks == IF touching = 0 THEN 0 ELSE tick - touching
      canStrike == CanStrike(a, tick, 33)
      shouldForceStrike == canTouchBall /\ timeTouchingTicks >= 54 /\ canStrike
      ballInFrontForShot == b.x < slime.x - Px(10) /\ ballHeightAboveGround <= Px(140)
      shouldTakeShot == canTouchBall /\ canStrike /\ ballInFrontForShot /\ mode # "DEFEND"
      ballThreateningGoal == /\ b.vx > Cx(120)
                             /\ b.x > Mul(internalWidth, 62, 100)
                             /\ ballHeightAboveGround <= Px(170)
      shouldBlock == /\ mode = "DEFEND" /\ ballThreateningGoal
                     /\ Abs(b.x - slime.x) < Px(55) /\ canStrike
      willJump == (shouldForceStrike \/ shouldTakeShot \/ shouldBlock) /\ slime.y >= groundY
  IN [mode |-> mode, willJump |-> willJump, canStrike |-> canStrike, touching |-> touching,
      targetX |-> IF (shouldForceStrike \/ shouldTakeShot) /\ canTouchBall /\ willJump
                  THEN b.x + Px(40) ELSE target0,
      wasFrozen |-> a.wasFrozen, servePhaseUntilTick |-> a.servePhaseUntilTick]

\* SoccerAI.getInput: the plan pickPlanByRollout returns for the intent i
SoccerPlan(i, w, p1Plan, t) ==
  CHOOSE d \in
    {[intent |-> i, plan |-> pick.plan, candidates |-> pick.candidates, targetX |-> i.targetX] :
       pick \in {PickPlanByRollout("SOCCER", w, i.mode, i.willJump, p1Plan, t)}} : TRUE

\* SoccerAI.getInput: the neutral rollout, the intent and the plan
SoccerDecision(a, w, tick, p1Plan, t) ==
  CHOOSE d \in
    {SoccerPlan(i, w, p1Plan, t) :
       i \in {SoccerIntent(a, w, tick, neutralOutcome.verdict = "loss") :
                neutralOutcome \in
                  {Simulate("SOCCER", SnapshotOf(w),
                            IF w.ball.vx > velAmbiguous THEN 140 ELSE 45,
                            Plan("NONE", FALSE), p1Plan, t)}}} : TRUE

\* VolleyballAI.getInput: P2 boundaries (right half)
VolleyballMinX == netX + halfNetW + slimeRadius + Px(1)
VolleyballMaxX == internalWidth - slimeRadius - Px(1)

\* VolleyballAI.getInput up to the call of pickPlanByRollout
VolleyballIntent(a, w, tick, t) ==
  LET slime == w.p2
      b == w.ball
      ballHeightAboveGround == groundY - b.y
      ballOnOurSide == b.x >= netX
      ballNearNet == Abs(b.x - netX) <= Px(55)
      isFrozen == t < b.frozenUntil
      timeToUnfreeze == b.frozenUntil - t
      servePhaseUntilTick == IF a.wasFrozen /\ ~isFrozen /\ ballOnOurSide THEN tick + 90
                             ELSE a.servePhaseUntilTick
      mode == IF (isFrozen /\ ballOnOurSide) \/ (ballOnOurSide /\ tick <= servePhaseUntilTick)
              THEN "SERVE"
              ELSE IF ~ballOnOurSide THEN "RECEIVE"
              ELSE IF ballHeightAboveGround < Px(85) /\ b.vy > Cx(80) THEN "RALLY_DEFEND"
              ELSE "RALLY_ATTACK"
      canTouchBall == /\ ~HypotMore(b.x - slime.x, b.y - slime.y,
                                    slimeRadius + ballRadius + Px(18))
                      /\ ballHeightAboveGround <= Px(190)
      touching == Touching(a, tick, canTouchBall)
      timeTouchingTicks == IF touching = 0 THEN 0 ELSE tick - touching
      comingToUs == b.vx > Cx(50) \/ (ballNearNet /\ b.vx > -Cx(20))
      targetX ==
        IF mode = "SERVE" THEN Clamp(b.x + Px(12), VolleyballMinX, VolleyballMaxX)
        ELSE IF mode = "RECEIVE"
        THEN Clamp(IF comingToUs THEN netX + halfNetW + Px(65) ELSE Mul(internalWidth, 78, 100),
                   VolleyballMinX, VolleyballMaxX)
        ELSE Clamp(b.x + (IF mode = "RALLY_ATTACK" THEN Px(42) ELSE Px(22)),
                   VolleyballMinX, VolleyballMaxX)
      canStrike == CanStrike(a, tick, 26)
      onGround == slime.y >= groundY
      shouldServeJump == /\ mode = "SERVE" /\ canStrike /\ onGround
                         /\ timeToUnfreeze <= 85 /\ timeToUnfreeze >= -10
                         /\ Abs(b.x - slime.x) < Px(40)
      serveBallHittable == /\ mode = "SERVE" /\ ~isFrozen /\ canStrike /\ onGround
                           /\ b.vy > Cx(30)
                           /\ ballHeightAboveGround <= Px(175)
                           /\ ballHeightAboveGround >= Px(35)
                           /\ Abs(b.x - slime.x) < Px(55)
      ballInFrontForHit == b.x < slime.x - Px(8) /\ ballHeightAboveGround <= Px(170)
      shouldRallyHit == /\ mode \in {"RALLY_ATTACK", "RALLY_DEFEND"} /\ ballOnOurSide
                        /\ canStrike /\ onGround /\ ballInFrontForHit /\ ~isFrozen
      shouldForceSend == /\ ballOnOurSide /\ canTouchBall /\ timeTouchingTicks >= 42
                         /\ canStrike /\ onGround /\ ~isFrozen
      shouldBlockAtNet == /\ mode \in {"RECEIVE", "RALLY_DEFEND"} /\ canStrike /\ onGround
                          /\ ballNearNet
                          /\ ballHeightAboveGround <= Px(165)
                          /\ ballHeightAboveGround >= Px(40)
  IN [mode |-> mode,
      willJump |-> shouldServeJump \/ shouldRallyHit \/ shouldForceSend
                     \/ shouldBlockAtNet \/ serveBallHittable,
      canStrike |-> canStrike, touching |-> touching, targetX |-> targetX,
      wasFrozen |-> isFrozen, servePhaseUntilTick |-> servePhaseUntilTick]

\* VolleyballAI.getInput: the plan, and the target biased by it
VolleyballDecision(a, w, tick, p1Plan, t) ==
  CHOOSE d \in
    {[intent |-> i, plan |-> pick.plan, candidates |-> pick.candidates,
      targetX |-> IF pick.plan.jumpOnStep0 /\ w.ball.x >= netX
                  THEN Clamp(w.ball.x + Px(30), VolleyballMinX, VolleyballMaxX)
                  ELSE i.targetX] :
       i \in {VolleyballIntent(a, w, tick, t)},
       pick \in {PickPlanByRollout("VOLLEYBALL", w, "RALLY",
                                   VolleyballIntent(a, w, tick, t).willJump, p1Plan, t)}} : TRUE

\* SoccerAI.getInput / VolleyballAI.getInput from the decision d on: the
\* strike cooldown, the smoothed direction, and the keys set on the virtual
\* input, which are those of the plan; with them the jump wish handed to
\* pickPlanByRollout and the candidates it enumerated
Emit(a, w, tick, d, enter, exit, debounce) ==
  LET errorX == d.targetX - w.p2.x
      onGround == w.p2.y >= groundY
      h == Hysteresis(a, tick, errorX, enter, exit, debounce)
      input == SetArrows(VirtualClear, d.plan.action = "RIGHT", d.plan.action = "LEFT",
                         d.plan.jumpOnStep0 /\ onGround)
  IN [ai |-> [h EXCEPT !.tick = tick,
                       !.touchingSinceTick = d.intent.touching,
                       !.lastStrikeTick = IF d.plan.jumpOnStep0 /\ onGround /\ d.intent.canStrike
                                          THEN tick ELSE @,
                       !.wasFrozen = d.intent.wasFrozen,
                       !.servePhaseUntilTick = d.intent.servePhaseUntilTick,
                       !.input = input],
      errorX |-> errorX,
      prefersJump |-> d.intent.willJump, candidates |-> d.candidates,
      wanted |-> Wanted(d.plan.action = "RIGHT", d.plan.action = "LEFT",
                        d.plan.jumpOnStep0 /\ onGround),
      keys |-> VirtualDown(input)]

\* AIPIDChase.getInput (for the slime of player 2).  integral holds 60 times
\* the integral; the output is used by its sign only, which is that of
\* 16000 * error + integral + 12000 * derivative in these units
PidGetInput(a, w) ==
  LET tick == a.tick + 1
      error == w.ball.x - w.p2.x
      integral == Clamp(a.integral + error, -Px(5000) * 60, Px(5000) * 60)
      derivative == Clamp((error - a.prevError) * 60, -Px(1500), Px(1500))
      outputIsZero == 16000 * error + integral = -(12000 * derivative)
      h == Hysteresis(a, tick, error, Px(24), Px(14), 9)
      goRight == h.moveDir = 1 /\ ~outputIsZero
      goLeft == h.moveDir = -1 /\ ~outputIsZero
      input == SetArrows(VirtualClear, goRight, goLeft, FALSE)
  IN [ai |-> [h EXCEPT !.tick = tick, !.integral = integral, !.prevError = error,
                       !.input = input],
      errorX |-> error,
      prefersJump |-> FALSE, candidates |-> <<>>,
      wanted |-> Wanted(goRight, goLeft, FALSE),
      keys |-> VirtualDown(input)]

\* p2AI.getInput(p2, ball, p1, input): the engine after the call, the target
\* error it computed, and the keys down on the input source it returns
GetInput(a, w, opponentInput, t) ==
  IF a.kind = "SoccerAI"
  THEN CHOOSE g \in {Emit(a, w, a.tick + 1, d, Px(22), Px(12), 8) :
                       d \in {SoccerDecision(a, w, a.tick + 1,
                                             PlanFromInput(opponentInput), t)}} : TRUE
  ELSE IF a.kind = "VolleyballAI"
  THEN CHOOSE g \in {Emit(a, w, a.tick + 1, d, Px(20), Px(12), 8) :
                       d \in {VolleyballDecision(a, w, a.tick + 1,
                                                 PlanFromInput(opponentInput), t)}} : TRUE
  ELSE PidGetInput(a, w)

\* live objects that the engine's rollouts had stepped themselves, for the
\* first tick of the plan emitted
LiveAfterShared(w, g) == [w EXCEPT !.p2 = SlimeUpdate(w.p2, FALSE, w.mode, g.keys)]

\* the live slimes and ball when getInput returns g: the engines read their
\* fields into snapshot literals, and simulate restores a snapshot into
\* slimes and a ball of its own
LiveAfter(w, g) == w

\* what a getInput call can see of the live match: the slimes, the ball with
\* its previous position and freeze timer, the scores, the opponent's keys
Observed(w, input) ==
  [p1 |-> w.p1, p2 |-> w.p2, ball |-> w.ball,
   score1 |-> w.g.score1, score2 |-> w.g.score2, input |-> input]

\* the lateral keys of player 2 among the keys down
Lateral(down) == down \cap {"ArrowLeft", "ArrowRight"}

\* Game.update with p2AI set.  Returns the world, and the engine with the
\* record of the call: what it saw, what it left, the direction state and the
\* last strike tick it had
\* and the keys it had emitted before, the tick at which the lateral keys
\* emitted last changed, the target error, the codes this call set to true
\* and the keys emitted
GameUpdateAi(w, a, input, t) ==
  LET q1 == SlimeUpdate(w.p1, TRUE, w.mode, input)
      w1 == [w EXCEPT !.p1 = q1]
      Record(g, live, u) ==
        [w |-> [u EXCEPT !.ev = @ \cup (IF Landed(w.p1, q1) THEN {"land1"} ELSE {})
                            \cup (IF Landed(w.p2, u.p2) THEN {"land2"} ELSE {})],
         ai |-> [engine |-> g.ai, seen |-> Observed(w1, input),
                 left |-> Observed(live, input),
                 wasDir |-> a.engine.moveDir, wasEmitted |-> a.emitted,
                 wasTurnedAt |-> a.turnedAt,
                 turnedAt |-> IF Lateral(g.keys) # Lateral(a.emitted) THEN g.ai.tick
                              ELSE a.turnedAt,
                 prefersJump |-> g.prefersJump, candidates |-> g.candidates,
                 wasStruckAt |-> a.engine.lastStrikeTick,
                 errorX |-> g.errorX, wanted |-> g.wanted, emitted |-> g.keys]]
      Finish(g, live) ==
        CHOOSE out \in
          {Record(g, live, u) :
             u \in {BallUpdate([live EXCEPT !.p2 = SlimeUpdate(live.p2, FALSE, w.mode, g.keys)],
                               t)}} : TRUE
      After(g) == CHOOSE out \in {Finish(g, live) : live \in {LiveAfter(w1, g)}} : TRUE
  IN CHOOSE out \in {After(g) : g \in {GetInput(a.engine, w1, input, t)}} : TRUE

\* updates explored from each initial state with an engine
MaxAiTicks == 2

\* the engine startGame gives player 2 in single-player mode, and the chaser
EnginesFor(mode) == {IF mode = "SOCCER" THEN "SoccerAI" ELSE "VolleyballAI", "AIPIDChase"}

\* player 1's keys during an update
AiInputs == {{}, {"KeyD", "KeyW"}}

\* the kick-off and the serve, balls in the air and on the ground around
\* player 2, and player 2 standing within a few px of where its engine
\* wants it
AiScenes ==
  {Kickoff("SOCCER"), Kickoff("VOLLEYBALL"), ServeBy2}
  \cup {Scene("SOCCER", SlimeReset(TRUE), Ground(Px(600)), b, 0, 0) :
          b \in {BallAt(Px(540), Px(500), -Px(2), Px(3)),
                 BallAt(Px(350), Px(420), Px(15), 0),
                 BallAt(Px(560), Px(300), 0, 0)}}
  \cup {Scene("SOCCER", SlimeReset(TRUE), SlimeReset(FALSE), b, 0, 0) :
          b \in {BallAt(Px(750), Px(480), 0, 0),
                 BallAt(Px(740), Px(450), Px(5), Px(2))}}
  \cup {Scene("VOLLEYBALL", SlimeReset(TRUE), SlimeReset(FALSE), b, 0, 0) :
          b \in {BallAt(Px(760), Px(420), -Px(3), Px(6)),
                 BallAt(Px(770), Px(300), 0, Px(4)),
                 BallAt(Px(300), Px(250), Px(9), -Px(4)),
                 BallAt(Px(980), Px(530), 0, Px(10))}}

\* a match in single-player mode, player 2's engine newly constructed
InitAi ==
  /\ NoRollouts
  /\ hit = <<>> /\ decision = <<>> /\ keys = {} /\ loop = <<>> /\ NoAux
  /\ \E s \in AiScenes, kind \in {"SoccerAI", "VolleyballAI", "AIPIDChase"} :
       /\ kind \in EnginesFor(s.mode)
       /\ MatchIn([s EXCEPT !.now = 0])
       /\ ai = [engine |-> NewEngine(kind), seen |-> <<>>, left |-> <<>>,
                wasDir |-> 0, wasEmitted |-> {}, wasTurnedAt |-> 0, turnedAt |-> 0,
                prefersJump |-> FALSE, candidates |-> <<>>, wasStruckAt |-> -9999,
                errorX |-> 0, wanted |-> {}, emitted |-> {}]

\* one Game.update in single-player mode, player 1 holding the keys input
StepAi(input) ==
  /\ \E r \in {GameUpdateAi(LiveWorld, ai, input, now)} :
       /\ ai' = r.ai
       /\ keys' = input
       /\ p1' = r.w.p1 /\ p2' = r.w.p2 /\ ball' = r.w.ball
       /\ score1' = r.w.g.score1 /\ score2' = r.w.g.score2
       /\ server' = r.w.g.server /\ running' = r.w.g.running
       /\ ev' = r.w.ev /\ pts' = r.w.pts
       /\ touched' = IF r.w.pts # <<>> /\ r.w.g.running THEN FALSE
                     ELSE touched \/ r.w.ev \cap {"hit1", "hit2"} # {}
       /\ ticks' = ticks + 1
  /\ UNCHANGED <<gameMode, now, rolloutVars, hit, decision, loop, auxVars>>

TickAi ==
  /\ running
  /\ ticks < MaxAiTicks
  /\ \E input \in AiInputs : StepAi(input)

SpecAi == InitAi /\ [][TickAi]_vars

-----------------------------------------------------------------------------
(* Engines with a strike behind them.  Player 2 struck, won the point while  *)
(* still in the air and was put back on the ground by the round reset: it    *)
(* serves, the ball frozen above it, the engine some calls after its strike  *)
(* and six calls into the freeze.  Player 1 stands still; the clock runs on. *)
(* In the goal contest the reset leaves the ball out of player 2's reach for *)
(* longer than the cooldown, so the engine there has landed from its last    *)
(* jump, 60 calls ago, or has never struck.                                  *)

\* updates explored from each serve
MaxCooldownTicks == 8

\* the engine of the given kind, at call number tick, its last strike at call
\* number struck, the ball frozen at its last call or not
EngineAt(kind, tick, struck, frozen) ==
  [NewEngine(kind) EXCEPT !.tick = tick, !.lastStrikeTick = struck, !.wasFrozen = frozen]

CooldownScenes ==
  {[engine |-> EngineAt("VolleyballAI", 100, 100 - gap, TRUE),
    scene |-> [ServeBy2 EXCEPT !.now = ClockStep]] : gap \in 15 .. 26}
  \cup {[engine |-> EngineAt("SoccerAI", 100, struck, FALSE),
         scene |-> Scene("SOCCER", SlimeReset(TRUE), Ground(Px(600)), b, 0, 0)] :
          struck \in {40, -9999},
          b \in {BallAt(Px(540), Px(500), -Px(2), Px(3)), BallAt(Px(560), Px(300), 0, 0)}}

InitCooldown ==
  /\ NoRollouts
  /\ hit = <<>> /\ decision = <<>> /\ keys = {} /\ loop = <<>> /\ NoAux
  /\ \E c \in CooldownScenes :
       /\ MatchIn(c.scene)
       /\ ai = [engine |-> c.engine, seen |-> <<>>, left |-> <<>>,
                wasDir |-> 0, wasEmitted |-> {}, wasTurnedAt |-> 0, turnedAt |-> 0,
                prefersJump |-> FALSE, candidates |-> <<>>,
                wasStruckAt |-> c.engine.lastStrikeTick,
                errorX |-> 0, wanted |-> {}, emitted |-> {}]

TickCooldown ==
  /\ running
  /\ ticks < MaxCooldownTicks
  /\ StepAi({})

NextCooldown == TickCooldown \/ Elapse

SpecCooldown == InitCooldown /\ [][NextCooldown]_vars

-----------------------------------------------------------------------------
(* The chaser as player 2 in the goal contest, newly constructed, the ball   *)
(* to its right and on its way into the right goal: the chaser sets off to   *)
(* the right, the goal is scored a few updates later and the round reset     *)
(* puts the ball at the centre, far to the chaser's left.  And the ball      *)
(* dropping near the chaser, which walks up to it.                           *)

\* updates explored from each scene
MaxChaseTicks == 13

ChaseScenes ==
  {Scene("SOCCER", SlimeReset(TRUE), Ground(x2), BallAt(Px(960), Px(500), vx, 0), 0, 0) :
     x2 \in {Px(860), Px(880), Px(900), Px(930)}, vx \in {Px(8), Px(12), Px(16)}}
  \cup {Scene("SOCCER", SlimeReset(TRUE), Ground(x2), BallAt(Px(700), Px(300), 0, 0), 0, 0) :
          x2 \in {Px(650), Px(760), Px(780)}}

InitChase ==
  /\ NoRollouts
  /\ hit = <<>> /\ decision = <<>> /\ keys = {} /\ loop = <<>> /\ NoAux
  /\ \E s \in ChaseScenes :
       /\ MatchIn(s)
       /\ ai = [engine |-> NewEngine("AIPIDChase"), seen |-> <<>>, left |-> <<>>,
                wasDir |-> 0, wasEmitted |-> {}, wasTurnedAt |-> 0, turnedAt |-> 0,
                prefersJump |-> FALSE, candidates |-> <<>>, wasStruckAt |-> -9999,
                errorX |-> 0, wanted |-> {}, emitted |-> {}]

TickChase ==
  /\ running
  /\ ticks < MaxChaseTicks
  /\ StepAi({})

SpecChase == InitChase /\ [][TickChase]_vars

-----------------------------------------------------------------------------
(* Rollouts against a predicted opponent.  The engines hand simulate the     *)
(* plan planFromInput reads off player 1's keys; player 1 is on the ground   *)
(* or coming down from a jump, with or without its jump key down.            *)

OpponentArgs ==
  {Call(steps, "NONE", FALSE, P1Plan(action, jump)) :
     steps \in {12, volleyballHorizon}, action \in {"NONE", "RIGHT"}, jump \in BOOLEAN}

OpponentScenes ==
  {Scene(mode, q1, SlimeReset(FALSE), BallAt(Px(500), Px(200), 0, 0), 0, 0) :
     mode \in {"SOCCER", "VOLLEYBALL"},
     q1 \in {SlimeReset(TRUE), Air(Px(200), 45), Air(Px(300), 20)}}

InitOpponent ==
  /\ \E s \in OpponentScenes : MatchIn([s EXCEPT !.now = 0])
  /\ heap = <<SnapshotOf(LiveWorld)>>
  /\ calls = <<>>
  /\ NoProbes

\* one call of simulate with a p1Plan
RolloutAgainst ==
  /\ Len(calls) < MaxCalls
  /\ \E a \in OpponentArgs :
       \E r \in {SimulateAt(heap, 1, gameMode, a, now)} :
         /\ heap' = r.heap
         /\ calls' = Append(calls, [args |-> a, at |-> now, given |-> heap[1],
                                    liveFrozen |-> now < ball.frozenUntil,
                                    result |-> r.result])
  /\ UNCHANGED <<matchVars, now, probeVars>>

SpecOpponent == InitOpponent /\ [][RolloutAgainst]_vars

-----------------------------------------------------------------------------
(* SoccerTrajectorySimulator (a SimulationBase over BallSimState), run one
   loop iteration per update of a live goal contest whose slimes stand idle *)

\* resolveCircleCollision of SoccerTrajectorySimulator.ts
TrajectoryCircleCollision(s, cx, cy, cr) ==
  LET dx == s.x - cx
      dy == s.y - cy
      minDist == ballRadius + cr
  IN IF HypotLess(dx, dy, minDist) /\ ~(dx = 0 /\ dy = 0)
     THEN CircleBounce(s, dx, dy, minDist)
     ELSE s

\* a trajectory step that clamps the speed as BallBase.update does
TrajectoryMotionClamped(s) ==
  LET a == ClampSpeed([s EXCEPT !.vx = Mul(s.vx, friction, 100),
                                !.vy = Mul(s.vy + gravity, friction, 100)])
  IN [a EXCEPT !.x = a.x + a.vx, !.y = a.y + a.vy]

\* SoccerTrajectorySimulator.step: gravity, friction, position
TrajectoryMotion(s) ==
  LET a == [s EXCEPT !.vx = Mul(s.vx, friction, 100),
                     !.vy = Mul(s.vy + gravity, friction, 100)]
  IN [a EXCEPT !.x = a.x + a.vx, !.y = a.y + a.vy]

\* SoccerTrajectorySimulator.step: top wall, ground bounce, side walls
TrajectoryWalls(s) ==
  LET a == IF s.y < ballRadius
           THEN [s EXCEPT !.y = ballRadius, !.vy = Mul(Abs(s.vy), 5, 10)] ELSE s
      b == IF a.y + ballRadius > groundY
           THEN [a EXCEPT !.y = groundY - ballRadius, !.vy = Mul(a.vy, -80, 100),
                          !.vx = Mul(a.vx, 95, 100)]
           ELSE a
      c == IF b.x < ballRadius /\ b.y < goalTopY
           THEN [b EXCEPT !.x = ballRadius, !.vx = Mul(b.vx, -8, 10)] ELSE b
  IN IF c.x > internalWidth - ballRadius /\ c.y < goalTopY
     THEN [c EXCEPT !.x = internalWidth - ballRadius, !.vx = Mul(c.vx, -8, 10)] ELSE c

\* SoccerTrajectorySimulator.step
TrajectoryStep(s) ==
  LET a == TrajectoryWalls(TrajectoryMotion(s))
      b == TrajectoryCircleCollision(a, 0, goalTopY, SOCCER_CROSSBAR_R)
  IN TrajectoryCircleCollision(b, internalWidth, goalTopY, SOCCER_CROSSBAR_R)

\* SoccerTrajectorySimulator.terminal (<<>>: null)
TrajectoryTerminal(s, step) ==
  IF s.y >= goalTopY /\ s.x < -ballRadius
  THEN [verdict |-> "win", step |-> step, goalSide |-> "LEFT"]
  ELSE IF s.y >= goalTopY /\ s.x > internalWidth + ballRadius
       THEN [verdict |-> "loss", step |-> step, goalSide |-> "RIGHT"]
       ELSE <<>>

\* SimulationBase.simulate: one iteration of its loop, on the record of the
\* call (state, i, and the outcome once it returned one)
SimulateIteration(r) ==
  LET state == CHOOSE y \in {TrajectoryStep(x) : x \in {r.state}} : TRUE
  IN [r EXCEPT !.state = state, !.i = r.i + 1,
               !.outcome = TrajectoryTerminal(state, r.i + 1)]

\* a ball as a BallSimState
BallSimState(b) == [x |-> b.x, y |-> b.y, vx |-> b.vx, vy |-> b.vy]

\* updates followed
MaxFlight == 4

\* balls in flight, none faster than ballMaxSpeed: over the field and by the
\* goal mouths
FlightBalls ==
  {BallAt(x, y, vx, vy) :
     x \in {Px(20), Px(500), Px(985)}, y \in {Px(300), Px(450), Px(530)},
     vx \in {-Px(18), -Px(6), Px(6), Px(18)}, vy \in {-Px(12), 0, Cx(1250)}}
  \cup {BallAt(Px(8), Px(425), -Px(18), 0), BallAt(Px(992), Px(425), Px(18), 0)}

\* BallBase.update: does the update of ball b find speed > ballMaxSpeed
Speeding(b) ==
  HypotMore(Mul(b.vx, friction, 100), Mul(b.vy + gravity, friction, 100), ballMaxSpeed)

InitFlight ==
  /\ NoRollouts
  /\ hit = <<>> /\ decision = <<>> /\ keys = {} /\ loop = <<>> /\ ai = <<>>
  /\ activeInputs = <<>> /\ gamepadIndex = -1 /\ gamepads = {} /\ pressed = {} /\ lastSet = <<>>
  /\ \E b \in FlightBalls :
       /\ MatchIn([Kickoff("SOCCER") EXCEPT !.ball = b])
       /\ sim = [state |-> BallSimState(b), i |-> 0, outcome |-> <<>>,
                 clamped |-> FALSE, barred |-> FALSE]

\* Game.update with no key down, and the simulator's next loop iteration; as
\* history, whether an update of the live ball has clamped its speed (clamped)
\* or met a crossbar (barred)
Fly ==
  /\ running /\ ticks < MaxFlight
  /\ pts = <<>> /\ sim.outcome = <<>>
  /\ StepLive({})
  /\ sim' = [SimulateIteration(sim) EXCEPT
               !.clamped = @ \/ Speeding(ball),
               !.barred = @ \/ ev' \cap {"crossbarL", "crossbarR"} # {}]
  /\ UNCHANGED <<hit, decision, keys, loop, ai, activeInputs, gamepadIndex, gamepads, pressed,
                 lastSet>>

SpecFlight == InitFlight /\ [][Fly]_vars

-----------------------------------------------------------------------------
(* InputHandler and its three sources: the keyboard listeners of its
   constructor, the buttons of TouchInput and the pad of GamepadInput *)

\* the codes the touch buttons and the pad are mapped to
Codes == {"KeyA", "KeyD", "KeyW"}

Sources == {"keyboard", "touch", "gamepad"}

\* the pad indices the browser hands out
Pads == {0, 1}

\* a set whose release drops the code, whoever else holds it
HandlerSetDropping(m, source, code, isDown) ==
  IF isDown
  THEN [c \in DOMAIN m \cup {code} |->
          IF c = code THEN (IF code \in DOMAIN m THEN m[code] ELSE {}) \cup {source} ELSE m[c]]
  ELSE [c \in DOMAIN m \ {code} |-> m[c]]

\* InputHandler.set
HandlerSet(m, source, code, isDown) ==
  IF isDown
  THEN [c \in DOMAIN m \cup {code} |->
          IF c = code THEN (IF code \in DOMAIN m THEN m[code] ELSE {}) \cup {source} ELSE m[c]]
  ELSE IF code \in DOMAIN m
       THEN LET sources == m[code] \ {source}
            IN IF sources = {} THEN [c \in DOMAIN m \ {code} |-> m[c]]
               ELSE [m EXCEPT ![code] = sources]
       ELSE m

\* InputHandler.isDown
IsDown(m, code) == code \in DOMAIN m /\ m[code] # {}

\* the history after source's event for code
Noted(h, source, code, isDown) ==
  IF isDown THEN h \cup {<<source, code>>} ELSE h \ {<<source, code>>}

\* the three inputHandler.set('gamepad', ...) calls of GamepadInput
PadSet(m, left, right, jump) ==
  HandlerSet(HandlerSet(HandlerSet(m, "gamepad", "KeyA", left), "gamepad", "KeyD", right),
             "gamepad", "KeyW", jump)

PadNoted(h, left, right, jump) ==
  Noted(Noted(Noted(h, "gamepad", "KeyA", left), "gamepad", "KeyD", right),
        "gamepad", "KeyW", jump)

\* a new Game: its InputHandler, TouchInput and GamepadInput, no pad plugged in
InitHandler ==
  /\ NoRollouts
  /\ hit = <<>> /\ decision = <<>> /\ keys = {} /\ loop = <<>> /\ ai = <<>> /\ sim = <<>>
  /\ MatchIn(Kickoff("SOCCER"))
  /\ activeInputs = <<>> /\ gamepadIndex = -1 /\ gamepads = {} /\ pressed = {} /\ lastSet = <<>>

\* the call set(source, code, isDown) on the map m, for the record
SetCall(m, source, code, isDown) ==
  [source |-> source, code |-> code, isDown |-> isDown,
   held |-> code \in DOMAIN m /\ source \in m[code]]

\* the keydown and keyup listeners
Key(code, isDown) ==
  /\ activeInputs' = HandlerSet(activeInputs, "keyboard", code, isDown)
  /\ pressed' = Noted(pressed, "keyboard", code, isDown)
  /\ lastSet' = SetCall(activeInputs, "keyboard", code, isDown)
  /\ UNCHANGED <<gamepadIndex, gamepads>>

\* handleStart and handleEnd of the button createButton made for code
Touch(code, isDown) ==
  /\ activeInputs' = HandlerSet(activeInputs, "touch", code, isDown)
  /\ pressed' = Noted(pressed, "touch", code, isDown)
  /\ lastSet' = SetCall(activeInputs, "touch", code, isDown)
  /\ UNCHANGED <<gamepadIndex, gamepads>>

\* a pad is plugged in: the gamepadconnected listener
PadConnected(index) ==
  /\ index \notin gamepads
  /\ gamepads' = gamepads \cup {index}
  /\ gamepadIndex' = IF gamepadIndex = -1 THEN index ELSE gamepadIndex
  /\ UNCHANGED <<activeInputs, pressed, lastSet>>

\* a pad is unplugged: the gamepaddisconnected listener
PadDisconnected(index) ==
  /\ index \in gamepads
  /\ gamepads' = gamepads \ {index}
  /\ IF gamepadIndex = index
     THEN /\ gamepadIndex' = -1
          /\ activeInputs' = PadSet(activeInputs, FALSE, FALSE, FALSE)
          /\ pressed' = PadNoted(pressed, FALSE, FALSE, FALSE)
          /\ lastSet' = SetCall(activeInputs, "gamepad", "KeyW", FALSE)
     ELSE UNCHANGED <<gamepadIndex, activeInputs, pressed, lastSet>>

\* the pad GamepadInput.update locks on when it holds none: the first listed
FirstPad == IF gamepads = {} THEN -1 ELSE CHOOSE i \in gamepads : \A j \in gamepads : i <= j

\* GamepadInput.update, the pad's d-pad, stick and buttons read as left, right, jump
PadUpdate(left, right, jump) ==
  \E index \in {IF gamepadIndex = -1 THEN FirstPad ELSE gamepadIndex} :
     /\ gamepadIndex' = index
     /\ IF index = -1 \/ index \notin gamepads
        THEN UNCHANGED <<activeInputs, pressed, lastSet>>
        ELSE /\ activeInputs' = PadSet(activeInputs, left, right, jump)
             /\ pressed' = PadNoted(pressed, left, right, jump)
             /\ lastSet' = SetCall(activeInputs, "gamepad", "KeyW", jump)
     /\ UNCHANGED gamepads

NextHandler ==
  /\ \/ \E code \in Codes, isDown \in BOOLEAN : Key(code, isDown)
     \/ \E code \in Codes, isDown \in BOOLEAN : Touch(code, isDown)
     \/ \E index \in Pads : PadConnected(index)
     \/ \E index \in Pads : PadDisconnected(index)
     \/ \E left \in BOOLEAN, right \in BOOLEAN, jump \in BOOLEAN : PadUpdate(left, right, jump)
  /\ UNCHANGED <<matchVars, now, rolloutVars, hit, decision, keys, loop, ai, sim>>

SpecHandler == InitHandler /\ [][NextHandler]_vars

-----------------------------------------------------------------------------
(* Properties *)

\* C1: after every ball update, whatever the update went through, the ball's
\* speed hypot(vx, vy) is at most ballMaxSpeed.
C1_SpeedCap == ~HypotMore(ball.vx, ball.vy, ballMaxSpeed)

\* a slime contact has just left the ball at the cap (within 0.05 of it)
C1_Witness ==
  /\ ev \cap {"hit1", "hit2"} # {}
  /\ HypotMore(ball.vx, ball.vy, ballMaxSpeed - Cx(5))

\* C2: after every slime update a slime is never below the ground line, and a
\* slime on the ground line has vertical velocity 0.
C2_OnOrAboveGround ==
  \A s \in {p1, p2} : s.y <= groundY /\ (s.y = groundY => s.vy = 0)

\* a slime has come down from a jump: it was airborne, and is now on the line
C2_Witness ==
  /\ "land1" \in ev
  /\ p1.y = groundY /\ p1.vy = 0

\* C3: two simulate calls with the same snapshot, horizon, plan and opponent
\* plan return the same verdict, step and final snapshot, whatever the clock
\* and the live ball's freeze timer were at each call and whatever calls were
\* made before.
C3_RolloutDeterminism ==
  \A i, j \in DOMAIN calls :
    (calls[i].args = calls[j].args /\ calls[i].given = calls[j].given)
      => /\ calls[i].result.verdict = calls[j].result.verdict
         /\ calls[i].result.step = calls[j].result.step
         /\ heap[calls[i].result.end] = heap[calls[j].result.end]

\* the same call was made twice, at different clock values and live freeze
\* timers, and the ball moved in it
C3_Witness ==
  \E i, j \in DOMAIN calls :
    /\ i < j
    /\ calls[i].args = calls[j].args /\ calls[i].given = calls[j].given
    /\ calls[i].at < calls[j].at
    /\ calls[i].liveFrozen /\ ~calls[j].liveFrozen
    /\ calls[i].args.steps > 0
    /\ heap[calls[j].result.end].ball # heap[1].ball

C5_NoTunnelling ==
  (/\ gameMode = "VOLLEYBALL"
   /\ ticks > 0 /\ "frozen" \notin ev /\ pts = <<>>
   /\ ball.y >= capCenterY
   /\ (ball.prevX < netX) # (ball.x < netX))
    => ev \cap {"postL", "postR", "cap", "hit1", "hit2"} # {}

\* the ball as BallSoccer.checkGameGeometry finds it at its side-wall checks:
\* integrated, held under the top wall, bounced off the ground
AtWalls ==
  SoccerGround(CheckUniversalBoundaries([LiveWorld EXCEPT !.ball = Integrate(ball)])).ball

\* C6: goal contest scoring.  A step that takes the ball's centre fully outside
\* a side wall within the goal opening records exactly one point, for player 2
\* at the left wall and for player 1 at the right wall; a step that takes the
\* ball to a side wall above the opening records no point and puts the ball
\* back at the wall with vx reversed (where it stays for the step unless a
\* crossbar or a slime then moves it).
C6_GoalOrWall ==
  [][(gameMode = "SOCCER" /\ ticks' = ticks + 1 /\ ~(now < ball.frozenUntil)) =>
       /\ (AtWalls.y >= goalTopY /\ AtWalls.x < -ballRadius)
            => pts' = <<2>> /\ score2' = score2 + 1 /\ score1' = score1
       /\ (AtWalls.y >= goalTopY /\ AtWalls.x > internalWidth + ballRadius)
            => pts' = <<1>> /\ score1' = score1 + 1 /\ score2' = score2
       /\ (AtWalls.y < goalTopY /\ AtWalls.x < ballRadius)
            => /\ pts' = <<>> /\ score1' = score1 /\ score2' = score2
               /\ "wallL" \in ev'
               /\ ev' \cap {"crossbarL", "hit1", "hit2"} = {}
                    => ball'.x = ballRadius /\ ball'.vx = Mul(AtWalls.vx, -8, 10)
       /\ (AtWalls.y < goalTopY /\ AtWalls.x > internalWidth - ballRadius)
            => /\ pts' = <<>> /\ score1' = score1 /\ score2' = score2
               /\ "wallR" \in ev'
               /\ ev' \cap {"crossbarR", "hit1", "hit2"} = {}
                    => ball'.x = internalWidth - ballRadius
                       /\ ball'.vx = Mul(AtWalls.vx, -8, 10)
  ]_vars

\* a goal at the left wall has just been recorded for player 2, and the round
\* was reset
C6_Witness ==
  /\ gameMode = "SOCCER" /\ "goalL" \in ev /\ pts = <<2>> /\ score2 = 1
  /\ ball.frozenUntil > now

\* the ball as ball.reset left it above the serving slime's start position
AtServe ==
  /\ ball.vx = 0 /\ ball.vy = 0
  /\ ball.x = StartPos(server = 1).x /\ ball.y = StartPos(server = 1).y - Px(150)

\* the serving slime at rest at its round-start position
ServerAtRest ==
  (IF server = 1 THEN p1 ELSE p2) = SlimeReset(server = 1)

\* C8: net contest serve, the serving slime at rest at its start.  While the served ball is frozen a step does not
\* move it; the first ball update after the freeze window gives it a strictly
\* positive (downward) vertical velocity; and after every step up to its
\* first contact with a slime its horizontal velocity is exactly 0.
C8_Serve ==
  [][(gameMode = "VOLLEYBALL" /\ ticks' = ticks + 1 /\ ~touched) =>
       /\ now < ball.frozenUntil => ball' = ball
       /\ (~(now < ball.frozenUntil) /\ AtServe /\ ServerAtRest) =>
            ball'.vy > 0 /\ ball'.y > ball.y
       /\ ~touched' => ball'.vx = 0
  ]_vars

\* the served ball has fallen more than 50 px, untouched, straight down
C8_Witness ==
  /\ gameMode = "VOLLEYBALL" /\ ~touched /\ ~(now < ball.frozenUntil)
  /\ ball.y > StartPos(TRUE).y - Px(100) /\ ball.vy > 0
  /\ ball.x = StartPos(server = 1).x /\ ball.vx = 0

\* the goal contest ball at rest at the reset drop point, the freeze over
AtKickoff ==
  /\ gameMode = "SOCCER" /\ ~(now < ball.frozenUntil)
  /\ ball.x = internalWidth \div 2 /\ ball.y = Px(200) /\ ball.vx = 0 /\ ball.vy = 0

\* C9 as stated: from the ball at rest at the drop point, not frozen, one ball
\* update with no contact leaves vy equal to CONFIG.gravity and vx equal to 0.
C9_VyIsGravity ==
  [][(AtKickoff /\ ticks' = ticks + 1 /\ ev' = {}) =>
       ball'.vy = gravity /\ ball'.vx = 0]_vars

\* C9, amended: from the ball at rest at the drop point, not frozen, one ball
\* update with no contact leaves vy equal to gravity * friction (0.5445: the
\* update adds gravity and then applies friction) and vx equal to 0.
C9_VyIsGravityTimesFriction ==
  [][(AtKickoff /\ ticks' = ticks + 1 /\ ev' = {}) =>
       ball'.vy = Mul(gravity, friction, 100) /\ ball'.vx = 0]_vars

\* the kickoff ball has made its first update, with no contact
C9_Witness ==
  /\ gameMode = "SOCCER" /\ ticks > 0 /\ ev = {} /\ ~touched
  /\ ball.prevY = Px(200) /\ ball.prevX = internalWidth \div 2
  /\ ball.y = Px(200) + Mul(gravity, friction, 100)

\* the contact is off-centre: not inside the "directly on top" window
OffCentre == hit # <<>> /\ ~IsDirectlyOnTop(hit.dx)

\* C10 as stated: for every off-centre contact, stomp or pop, in either
\* variant, a slime moving right at slimeSpeed leaves the ball with vx > 0 and
\* with a larger |vx| than the same contact by the slime standing still.
C10_MomentumInheritance ==
  OffCentre => /\ hit.moving.vx > 0
               /\ Abs(hit.moving.vx) > Abs(hit.still.vx)

\* C10, amended: the same, for the off-centre contacts in which the ball is on
\* the side the slime is moving to (ball centre right of the slime centre).
C10_MomentumInheritanceLeadingSide ==
  (OffCentre /\ hit.dx > 0) => /\ hit.moving.vx > 0
                               /\ Abs(hit.moving.vx) > Abs(hit.still.vx)

\* an off-centre stomp on the leading side by a slime in a jump, the moving
\* slime's hit cut back by the closing clamp
C10_Witness ==
  /\ OffCentre /\ hit.dx > 0 /\ IsStomp(hit.dx, hit.dy) /\ p1.vy < 0
  /\ hit.moving.vx > hit.still.vx
  /\ hit.moving.vx < Px(12) + Mul(p1.vx, 125, 100)

\* the returned plan is one of the candidates and no candidate has a higher score
Maximal(d) ==
  \E i \in DOMAIN d.candidates :
     /\ d.candidates[i] = d.plan
     /\ \A j \in DOMAIN d.candidates : d.scores[i] >= d.scores[j]

\* C7: score-maximality.  In every decision of pickPlanByRollout, of either
\* engine, the returned plan is a member of the candidate set and its score is
\* greater than or equal to the score of every other candidate.
C7_ScoreMaximal == decision # <<>> => Maximal(decision)

\* the decisions that went through the scoring loop return a plan of maximal score
LoopedDecisionsMaximal == (decision # <<>> /\ decision.looped) => Maximal(decision)

\* the lateral velocity a symmetric cancel gives for the two lateral signals
CancelVelocity(left, right) ==
  IF left /\ ~right THEN -slimeSpeed ELSE IF right /\ ~left THEN slimeSpeed ELSE 0

\* C11: symmetric lateral cancel.  In every step each slime's lateral velocity
\* is 0 when both of its lateral keys are down, and +/- slimeSpeed only when
\* exactly one is; and player 1 moves exactly as a slime driven by the plan
\* planFromInput derives from the same keys.
C11_SymmetricCancel ==
  [][(ticks' = ticks + 1) =>
       /\ p1'.vx = CancelVelocity("KeyA" \in keys', "KeyD" \in keys')
       /\ p2'.vx = CancelVelocity("ArrowLeft" \in keys', "ArrowRight" \in keys')
       /\ p1' = SlimeUpdate(p1, TRUE, gameMode,
                            BuildP1Input(PlanFromInput(keys').action,
                                         PlanFromInput(keys').jumpOnStep0))
  ]_vars

\* what a step does to one slime that started it above the ground line
AirborneStep(s, q, isPlayer1, jumpKey) ==
  s.y < groundY =>
    /\ q = SlimeUpdate(s, isPlayer1, gameMode, keys' \ {jumpKey})
    /\ q.y < groundY => q.vy = s.vy + gravity

\* C20: no mid-air jump.  A step gives a slime the jump impulse only if its
\* jump key is down and it started the step on the ground line; for a slime
\* that started the step in the air the jump key changes nothing, and its
\* vertical velocity changes by gravity alone until it lands.
C20_NoMidAirJump ==
  [][(ticks' = ticks + 1) =>
       /\ AirborneStep(p1, p1', TRUE, "KeyW")
       /\ AirborneStep(p2, p2', FALSE, "ArrowUp")
       /\ p1'.vy = gravity - slimeJumpForce => "KeyW" \in keys' /\ p1.y >= groundY
       /\ p2'.vy = gravity - slimeJumpForce => "ArrowUp" \in keys' /\ p2.y >= groundY
  ]_vars

\* player 1 jumped on the first step and held the jump key through the second
C20_Witness ==
  /\ ticks = 2 /\ "KeyW" \in keys
  /\ p1.y < groundY /\ p1.vy = 2 * gravity - slimeJumpForce

\* the index of the returned plan among the candidates
Chosen(d) == CHOOSE i \in DOMAIN d.candidates : d.candidates[i] = d.plan

\* every candidate's rollout ended in a loss
AllLose(d) == \A i \in DOMAIN d.candidates : d.outcomes[i].verdict = "loss"

\* C12: search exhaustion.  When every candidate's rollout ends in a loss the
\* engine still returns one of the candidates, and no candidate that loses at
\* the same step as the returned one ends closer to the ball than it does.
C12_CloserToTheBallWins ==
  (decision # <<>> /\ AllLose(decision)) =>
     /\ \E i \in DOMAIN decision.candidates : decision.candidates[i] = decision.plan
     /\ \A j \in DOMAIN decision.candidates :
          decision.outcomes[j].step = decision.outcomes[Chosen(decision)].step
            => decision.outcomes[Chosen(decision)].gap <= decision.outcomes[j].gap

\* the candidates that share the maximum score
AtMax(d) ==
  {i \in DOMAIN d.candidates : \A j \in DOMAIN d.candidates : d.scores[i] >= d.scores[j]}

\* C19: tie-break by first-seen order.  When two or more candidates share the
\* maximum score of a decision, the returned plan is the earliest of them in
\* the order LEFT, RIGHT, NONE without jump, then LEFT, RIGHT, NONE with jump.
C19_FirstSeenWins ==
  (decision # <<>> /\ Cardinality(AtMax(decision)) >= 2) =>
     /\ Chosen(decision) \in AtMax(decision)
     /\ \A i \in AtMax(decision) : Chosen(decision) <= i

\* six candidates tie at the maximum and the first, LEFT without jump, is returned
C19_Witness ==
  /\ decision # <<>>
  /\ Cardinality(AtMax(decision)) = 6
  /\ decision.plan = Plan("LEFT", FALSE)

\* the ball b has its centre on the centre of the slime s
OnSlime(b, s) == b.x = s.x /\ b.y = s.y

\* the ball b has its centre on the centre of a circular obstacle of the variant
OnObstacle(b) ==
  IF gameMode = "SOCCER"
  THEN b.y = goalTopY /\ b.x \in {0, internalWidth}
  ELSE b.y = capCenterY /\ b.x = netX

\* C13: degenerate geometry is no contact.  When a ball update carries the
\* ball's centre exactly onto the centre of a slime, of a crossbar or of the
\* net cap, the collision checks leave the ball where the integration put it,
\* with the velocity it had, and record no contact.
C13_DegenerateIsNoContact ==
  [][(/\ ticks' = ticks + 1
      /\ ~(now < ball.frozenUntil)
      /\ \/ OnSlime(Integrate(ball), p1')
         \/ OnSlime(Integrate(ball), p2')
         \/ OnObstacle(Integrate(ball)))
     => /\ ball' = Integrate(ball)
        /\ ev' \cap {"hit1", "hit2", "crossbarL", "crossbarR", "cap"} = {}
  ]_vars

\* the ball sits on the centre of a slime in the air after an update
C13_Witness ==
  /\ ticks = 1 /\ ev = {}
  /\ (OnSlime(ball, p1) \/ OnSlime(ball, p2))
  /\ ball.vy < 0 /\ ball.prevY > ball.y

\* the ball sits on the centre of a crossbar or of the net cap after an update
C13_WitnessObstacle == ticks = 1 /\ ev = {} /\ OnObstacle(ball) /\ ball.prevX # ball.x

\* the number of ticks the call c ran according to what it returned
TicksOf(c) == IF c.result.verdict = "none" THEN c.args.steps ELSE c.result.step

\* the same call with its horizon one tick short of TicksOf(c)
Before(c) ==
  Simulate(gameMode, c.given, TicksOf(c) - 1, c.args.plan, c.args.p1Plan, c.at)

\* one kernel tick, the TicksOf(c)-th of the call, run on the snapshot s
LastTick(c, s) ==
  RolloutTick(RolloutWorld(gameMode, s), TicksOf(c) - 1, c.args.plan,
              OpponentInput(c.args.p1Plan), c.at)

\* what simulate reports of a world in which the player scored (0: nobody) scored
VerdictOf(scored) == IF scored = 0 THEN "none" ELSE IF scored = 2 THEN "win" ELSE "loss"

\* C14: rollout termination and verdict.  A call of simulate runs at most
\* `steps` ticks.  If it reports a verdict it reports a step k with
\* 1 <= k <= steps, no point was scored in the first k-1 ticks, tick k scored
\* one, the verdict is 'win' iff player 2 scored it and 'loss' iff player 1
\* did, and the end snapshot is the world right after tick k.  Otherwise the
\* verdict is 'none', the step is null, and the end snapshot is the world
\* after exactly `steps` ticks, none of which scored; for steps = 0 this is the
\* snapshot given.
C14_RolloutTermination ==
  \A i \in DOMAIN calls :
    \E c \in {calls[i]} :
      /\ c.result.verdict \in {"win", "loss", "none"}
      /\ IF c.result.verdict = "none" THEN c.result.step = 0
         ELSE c.result.step \in 1 .. c.args.steps
      /\ IF c.args.steps = 0 THEN heap[c.result.end] = c.given
         ELSE \E pre \in {Before(c)} :
                /\ pre.verdict = "none" /\ pre.ticks = TicksOf(c) - 1
                /\ \E w \in {LastTick(c, pre.end)} :
                     /\ c.result.verdict = VerdictOf(w.g.lastScore)
                     /\ heap[c.result.end] = SnapshotOf(w)

\* a rollout stopped before its horizon on a point for player 2, and another,
\* from the same snapshot, ran out its horizon with no point
C14_Witness ==
  \E i, j \in DOMAIN calls :
    /\ calls[i].result.verdict = "win"
    /\ calls[i].result.step > 1 /\ calls[i].result.step < calls[i].args.steps
    /\ calls[j].result.verdict = "none" /\ calls[j].args.steps > 1

\* a rollout stopped before its horizon on a point for player 1
C14_WitnessLoss ==
  \E i \in DOMAIN calls :
    /\ calls[i].result.verdict = "loss"
    /\ calls[i].result.step > 1 /\ calls[i].result.step < calls[i].args.steps

\* the lateral key of player 2 that stands for the plan's action
LateralKey(plan) ==
  IF plan.action = "LEFT" THEN {"ArrowLeft"}
  ELSE IF plan.action = "RIGHT" THEN {"ArrowRight"} ELSE {}

\* the slime s after ticks lo .. hi-1 with the plan's lateral key down on
\* every tick and the jump key down on tick 0 only (the range is halved to
\* keep the evaluation shallow)
RECURSIVE Walk(_, _, _, _)
Walk(s, lo, hi, plan) ==
  IF lo >= hi THEN s
  ELSE IF hi = lo + 1
  THEN SlimeUpdate(s, FALSE, gameMode,
                   LateralKey(plan)
                     \cup (IF lo = 0 /\ plan.jumpOnStep0 THEN {"ArrowUp"} ELSE {}))
  ELSE CHOOSE q \in {Walk(h, (lo + hi) \div 2, hi, plan) :
                       h \in {Walk(s, lo, (lo + hi) \div 2, plan)}} : TRUE

\* C18: in a rollout the searching side's lateral choice is held on every
\* simulated tick and its jump flag is applied on tick 0 only: the searching
\* slime ends where these signals take it, and on ticks 1 .. steps-1 its jump
\* signal is inactive even when jumpOnStep0 is true.
C18_PlanApplication ==
  \A i \in DOMAIN calls :
    /\ heap[calls[i].result.end].p2 = Walk(calls[i].given.p2, 0, TicksOf(calls[i]), calls[i].args.plan)
    /\ \A k \in 1 .. calls[i].args.steps - 1 : ~PlanJump(calls[i].args.plan, k)

\* a rollout with jumpOnStep0 started with the searching slime in the air and
\* ran long enough for it to land; it stayed on the ground from then on, and
\* moved sideways all the while
C18_Witness ==
  \E i \in DOMAIN calls :
    /\ calls[i].args.plan.jumpOnStep0 /\ calls[i].args.plan.action = "LEFT"
    /\ TicksOf(calls[i]) = 40
    /\ calls[i].given.p2.y < groundY
    /\ heap[calls[i].result.end].p2.y = groundY
    /\ heap[calls[i].result.end].p2.vy = 0
    /\ heap[calls[i].result.end].p2.x = calls[i].given.p2.x - 40 * slimeSpeed

\* the loop state after a frame is within the bounds of the fixed-step loop
Bounded(l) ==
  /\ l.subSteps <= maxSubStepsPerFrame
  /\ 0 <= l.accumulator /\ l.accumulator < timeStep

\* C17: fixed-step loop bound.  Whatever the frame timestamps, one animation
\* frame runs at most maxSubStepsPerFrame (3) updates, and after every frame
\* 0 <= accumulator < timeStep.
C17_LoopBound == loop.frames > 0 => Bounded(loop)

\* the first definition of the class keeps the bound, and drops the backlog
\* when it reaches the cap
CappedLoopBound ==
  (loop.build = 1 /\ loop.frames > 0)
    => /\ Bounded(loop)
       /\ loop.subSteps = maxSubStepsPerFrame => loop.accumulator = 0

\* a frame of the first definition reached the cap with backlog to drop
CappedLoopDrops ==
  /\ loop.build = 1 /\ loop.frames > 1
  /\ loop.subSteps = maxSubStepsPerFrame /\ loop.deltaTime = maxDeltaTime
  /\ ticks = loop.frames * maxSubStepsPerFrame

EnterMoveThreshold(a) == IF a.kind = "SoccerAI" THEN Px(22) ELSE Px(20)

\* the emitted lateral direction went from one side to the other
Reversed(before, after) ==
  \/ Lateral(before) = {"ArrowLeft"} /\ Lateral(after) = {"ArrowRight"}
  \/ Lateral(before) = {"ArrowRight"} /\ Lateral(after) = {"ArrowLeft"}

\* C16: hysteresis on emitted signals.  For SoccerAI and VolleyballAI: from
\* idle no lateral signal is emitted until |targetX - slime.x| reaches the
\* enter threshold; a moving slime's signal is released once the error is at
\* or below the exit threshold (12 px); and the emitted direction reverses
\* only if at least dirSwitchDebounceTicks (8) ticks have passed since it last
\* changed.
C16_HysteresisOnSignals ==
  (ai.engine.tick > 0 /\ ai.engine.kind \in {"SoccerAI", "VolleyballAI"})
    => /\ (ai.wasDir = 0 /\ Abs(ai.errorX) < EnterMoveThreshold(ai.engine))
            => Lateral(ai.emitted) = {}
       /\ (ai.wasDir # 0 /\ Abs(ai.errorX) <= Px(12)) => Lateral(ai.emitted) = {}
       /\ Reversed(ai.wasEmitted, ai.emitted) => ai.engine.tick - ai.wasTurnedAt >= 8

\* the engines' smoothed direction (moveDir) does stay idle below the enter
\* threshold and does stop at the exit threshold
MoveDirHysteresis ==
  ai.engine.tick > 0
    => /\ (ai.wasDir = 0 /\ Abs(ai.errorX) < EnterMoveThreshold(ai.engine)
             /\ ai.engine.kind # "AIPIDChase") => ai.engine.moveDir = 0
       /\ (ai.wasDir # 0 /\ Abs(ai.errorX) <= Px(12)) => ai.engine.moveDir = 0

\* the slime s lies inside the legal court region of its side
InCourt(s, isPlayer1) ==
  IF gameMode = "SOCCER"
  THEN slimeRadius <= s.x /\ s.x <= internalWidth - slimeRadius
  ELSE IF isPlayer1
  THEN slimeRadius <= s.x /\ s.x <= netX - VOLLEYBALL_NET_W \div 2 - slimeRadius
  ELSE netX + VOLLEYBALL_NET_W \div 2 + slimeRadius <= s.x /\ s.x <= internalWidth - slimeRadius

\* C21: after every slime update the slime lies inside its legal court
\* region: the full court in the goal contest, its own half up to the net in
\* the net contest, so that neither slime ever crosses or overlaps the net.
C21_SlimesInCourt == InCourt(p1, TRUE) /\ InCourt(p2, FALSE)

\* net contest: both slimes have run at the net and are held against it
C21_Witness ==
  /\ gameMode = "VOLLEYBALL" /\ ticks = 2
  /\ p1.vx = slimeSpeed /\ p1.x = netX - halfNetW - slimeRadius
  /\ p2.vx = -slimeSpeed /\ p2.x = netX + halfNetW + slimeRadius

\* goal contest: a slime has run at a side wall and is held against it
C21_WitnessWall ==
  /\ gameMode = "SOCCER" /\ ticks > 0
  /\ p1.vx = -slimeSpeed /\ p1.x = slimeRadius

\* C22: on a step taken while the clock is before the ball's frozenUntil the
\* ball's position, previous position and velocity stay as they were, no
\* collision is resolved and no point is recorded, while both slimes are
\* updated from the keys held
C22_Freeze ==
  [][(ticks' = ticks + 1 /\ now < ball.frozenUntil) =>
       /\ ball' = ball
       /\ pts' = <<>> /\ score1' = score1 /\ score2' = score2
       /\ ev' \subseteq {"frozen", "land1", "land2"}
       /\ \E input \in Inputs : /\ p1' = SlimeUpdate(p1, TRUE, gameMode, input)
                                /\ p2' = SlimeUpdate(p2, FALSE, gameMode, input)]_vars

\* a frozen step has left the server's slime in contact with the ball
C22_Witness ==
  /\ "frozen" \in ev /\ ticks > 0 /\ now < ball.frozenUntil
  /\ Touches(ball, p1) /\ p1.y < groundY

\* a frozen step on which a slime moved sideways
C22_WitnessMove == "frozen" \in ev /\ p1.vx # 0 /\ p1.x # SlimeReset(TRUE).x

\* the ball as the integration of an unfrozen update leaves it
Integrated == Integrate(ball)

\* the net contest's update finds the ball's lower edge below the ground line
Grounding ==
  /\ gameMode = "VOLLEYBALL" /\ ticks' = ticks + 1 /\ ~(now < ball.frozenUntil)
  /\ Integrated.y + ballRadius > groundY

NetResponses == {"wallL", "wallR", "cap", "postL", "postR"}

\* C23: in the net contest an unfrozen step whose integration leaves the
\* ball's lower edge below the ground line records exactly one point, for
\* player 2 when the ball is left of the net's centre and for player 1
\* otherwise, and applies no wall or net response; the ball is never below the
\* ground line in a state whose step recorded no point
C23_GroundScoring ==
  /\ [](gameMode = "VOLLEYBALL" /\ ball.y + ballRadius > groundY => pts # <<>>)
  /\ [][Grounding =>
          /\ pts' = <<IF Integrated.x < netX THEN 2 ELSE 1>>
          /\ score1' + score2' = score1 + score2 + 1
          /\ (Integrated.x < netX <=> score2' = score2 + 1)
          /\ ev' \cap NetResponses = {}]_vars

\* the ball came down past the left wall on the point that ended the match:
\* it lies where the integration left it, outside the wall
C23_Witness ==
  /\ gameMode = "VOLLEYBALL" /\ "floor" \in ev /\ pts = <<2>> /\ ~running
  /\ ball.x < ballRadius /\ ball.y + ballRadius > groundY

\* the ball came down in player 2's half and player 1 serves the next round
C23_WitnessServe ==
  /\ gameMode = "VOLLEYBALL" /\ "floor" \in ev /\ pts = <<1>> /\ running
  /\ server = 1 /\ now < ball.frozenUntil

\* a slime at rest on the ground at x
AtStart(s, x) == s.x = x /\ s.y = groundY /\ s.vx = 0 /\ s.vy = 0

\* the ball at rest at (x, y), frozen
Dropped(x, y) ==
  /\ ball.x = x /\ ball.y = y /\ ball.vx = 0 /\ ball.vy = 0
  /\ now < ball.frozenUntil

\* both slimes at rest at their start positions, the ball at rest and frozen
\* where the contest drops it
ResetShape ==
  /\ AtStart(p1, Px(200)) /\ AtStart(p2, Px(800))
  /\ gameMode = "SOCCER" => Dropped(internalWidth \div 2, Px(200))
  /\ gameMode = "VOLLEYBALL" => Dropped(IF server = 1 THEN p1.x ELSE p2.x, groundY - Px(150))

\* the match has just been started
MatchStart == ticks = 0 /\ ~touched /\ score1 + score2 = 0

\* C24: after a point that does not end the match, and at match start, both
\* slimes are at rest at their start positions and the ball is at rest and
\* frozen: at (internalWidth/2, 200) in the goal contest, 150 above the
\* serving slime in the net contest, the server being the last scorer, and
\* player 1 at match start
C24_RoundReset ==
  /\ MatchStart => (ResetShape /\ server = 1)
  /\ [][(ticks' = ticks + 1 /\ pts' # <<>> /\ running') =>
          /\ ResetShape'
          /\ gameMode = "VOLLEYBALL" => server' = pts'[Len(pts')]]_vars

\* player 2 has scored in the net contest and serves
C24_Witness ==
  /\ gameMode = "VOLLEYBALL" /\ running /\ pts = <<2>> /\ ticks > 0
  /\ ball.x = Px(800) /\ server = 2

\* a goal has been scored in the goal contest and the match goes on
C24_WitnessGoal ==
  /\ gameMode = "SOCCER" /\ running /\ pts # <<>> /\ ticks > 0
  /\ ball.x = Px(500) /\ ball.y = Px(200)

\* a player has reached the winning score
Won == score1 = winningScore \/ score2 = winningScore

\* C25: both scores are at most winningScore and at most one of them equals
\* it; a step records at most one point; once a score has reached
\* winningScore the game is not running and no step changes the scores, the
\* slimes or the ball
C25_MatchEnd ==
  /\ [](/\ score1 <= winningScore /\ score2 <= winningScore
        /\ ~(score1 = winningScore /\ score2 = winningScore)
        /\ Len(pts) <= 1
        /\ Won => ~running)
  /\ [][/\ score1' + score2' <= score1 + score2 + 1
        /\ score1' >= score1 /\ score2' >= score2
        /\ Won => UNCHANGED <<score1, score2, p1, p2, ball>>]_vars

\* player 2 has won the net contest 5 to 4 on the ground point just played
C25_Witness ==
  /\ gameMode = "VOLLEYBALL" /\ score1 = winningScore - 1 /\ score2 = winningScore
  /\ pts = <<2>> /\ ~running

\* player 1 has won the goal contest on the second step, with a goal
C25_WitnessGoal ==
  /\ gameMode = "SOCCER" /\ score1 = winningScore /\ "goalR" \in ev /\ ~running
  /\ ticks = 2

\* the update has been called once more after the match ended
C25_WitnessIdle == ~running /\ score1 = winningScore /\ pts # <<>> /\ ticks = 2 /\ ev = {"floor"}

\* player 2's engine is one of the two that search by rollout, and has just
\* been asked for its input
Searched == ai # <<>> /\ ai.engine.kind \in {"SoccerAI", "VolleyballAI"} /\ ai.engine.tick > 0

NoJumpPlans == <<Plan("LEFT", FALSE), Plan("RIGHT", FALSE), Plan("NONE", FALSE)>>

\* C26: an engine's jump key is down only if its jump wish held on that call,
\* so that jump candidates were enumerated, and its slime was on the ground
\* line; when the wish does not hold the candidates are the three plans
\* without a jump and the jump key is up
C26_JumpOnlyWhenPreferred ==
  Searched =>
    /\ "ArrowUp" \in ai.emitted =>
          /\ ai.prefersJump
          /\ \E i \in DOMAIN ai.candidates : ai.candidates[i].jumpOnStep0
          /\ ai.seen.p2.y >= groundY
    /\ ~ai.prefersJump => (ai.candidates = NoJumpPlans /\ "ArrowUp" \notin ai.emitted)

\* the engine wished to jump, and its jump key is down
C26_Witness == Searched /\ ai.prefersJump /\ "ArrowUp" \in ai.emitted

\* the engine did not wish to jump though its slime was on the ground with
\* the ball in play
C26_WitnessNoWish ==
  /\ Searched /\ ~ai.prefersJump /\ ai.seen.p2.y >= groundY
  /\ ~(now < ai.seen.ball.frozenUntil)

\* in the decision d some candidate's rollout does not end in a loss
Avoidable(d) == \E i \in DOMAIN d.candidates : d.outcomes[i].verdict # "loss"

\* the rollout of the plan the decision d returns does not end in a loss
Holds(d) ==
  \A i \in DOMAIN d.candidates : d.candidates[i] = d.plan => d.outcomes[i].verdict # "loss"

\* in the decision d the loop body scores every candidate that does not lose
\* strictly above every candidate that loses
LossDominated(d) ==
  \A i, j \in DOMAIN d.candidates :
     (d.outcomes[i].verdict # "loss" /\ d.outcomes[j].verdict = "loss")
       => d.scores[i] > d.scores[j]

\* C27: in every decision in which some candidate's rollout does not end in a
\* loss, the rollout of the plan returned does not end in a loss; every
\* candidate that does not lose scores strictly higher than every one that
\* does
C27_NoAvoidableLoss ==
  decision # <<>> => /\ LossDominated(decision)
                     /\ Avoidable(decision) => Holds(decision)

\* the decisions that went through the scoring loop do not concede when some
\* candidate avoids it
LoopedDecisionsHold ==
  (decision # <<>> /\ decision.looped) =>
     /\ LossDominated(decision)
     /\ Avoidable(decision) => Holds(decision)

\* a looped decision with a losing and a non-losing candidate
LoopedDecisionAvoids ==
  /\ decision # <<>> /\ decision.looped /\ Avoidable(decision)
  /\ \E i \in DOMAIN decision.candidates : decision.outcomes[i].verdict = "loss"

\* strikeCooldownTicks of the engine
StrikeCooldown(kind) == IF kind = "SoccerAI" THEN 33 ELSE 26

\* C28: an engine's jump key is down on a call only if at least
\* strikeCooldownTicks calls (33 for SoccerAI, 26 for VolleyballAI) have gone
\* by since the last call on which it was down, which is the call the engine
\* keeps in lastStrikeTick
C28_StrikeCooldown ==
  /\ [](Searched =>
          /\ "ArrowUp" \in ai.emitted =>
                /\ ai.engine.tick - ai.wasStruckAt >= StrikeCooldown(ai.engine.kind)
                /\ ai.engine.lastStrikeTick = ai.engine.tick
          /\ "ArrowUp" \notin ai.emitted => ai.engine.lastStrikeTick = ai.wasStruckAt)
  /\ [][ticks' = ticks + 1 => ai'.wasStruckAt = ai.engine.lastStrikeTick]_vars

\* the server's jump key goes down 26 calls after its last strike, having
\* been up on the call before although the engine had struck within the
\* cooldown
C28_Witness ==
  /\ Searched /\ ai.engine.kind = "VolleyballAI" /\ "ArrowUp" \in ai.emitted
  /\ ai.engine.tick - ai.wasStruckAt = 26
  /\ ticks > 1 /\ "ArrowUp" \notin ai.wasEmitted

\* the goal contest's engine jumps, more than 33 calls after its last strike
C28_WitnessGoal ==
  /\ Searched /\ ai.engine.kind = "SoccerAI" /\ "ArrowUp" \in ai.emitted
  /\ ai.wasStruckAt = 40

\* the lateral key that points away from the direction dir
Against(dir) == IF dir = 1 THEN {"ArrowLeft"} ELSE IF dir = -1 THEN {"ArrowRight"} ELSE {}

\* C29: on every call the chaser leaves idle only with an error of at least
\* 24 px, is idle with no lateral key down whenever the error is at most
\* 14 px, has a lateral key down against the direction it was moving in only
\* if at least 9 calls have gone by since its direction last changed, and
\* never has a jump key down
C29_ChaseDebounce ==
  [][(ticks' = ticks + 1 /\ ai'.engine.kind = "AIPIDChase") =>
       /\ (ai.engine.moveDir = 0 /\ ai'.engine.moveDir # 0) => Abs(ai'.errorX) >= Px(24)
       /\ Abs(ai'.errorX) <= Px(14) => (ai'.engine.moveDir = 0 /\ Lateral(ai'.emitted) = {})
       /\ ai'.emitted \cap Against(ai.engine.moveDir) # {} =>
             ai'.engine.tick - ai.engine.lastDirChangeTick >= 9
       /\ (ai'.engine.moveDir # ai.engine.moveDir) <=>
             (ai'.engine.lastDirChangeTick = ai'.engine.tick)
       /\ ai'.engine.moveDir = ai.engine.moveDir =>
             ai'.engine.lastDirChangeTick = ai.engine.lastDirChangeTick
       /\ ai'.emitted \cap {"ArrowUp", "KeyW"} = {}]_vars

\* the chaser turns from right to left after the reset, having held its
\* direction for the calls in between although the ball was far to its left
C29_Witness ==
  /\ ai.engine.kind = "AIPIDChase" /\ ai.wasDir = 1 /\ ai.engine.moveDir = -1
  /\ "ArrowLeft" \in ai.emitted /\ "ArrowRight" \in ai.wasEmitted
  /\ ai.errorX <= -Px(24) /\ score1 = 1

\* the chaser stops within 14 px of the ball
C29_WitnessStop ==
  /\ ai.engine.kind = "AIPIDChase" /\ ai.wasDir # 0 /\ ai.engine.moveDir = 0
  /\ Abs(ai.errorX) <= Px(14)

\* player 1's slime s after ticks lo .. hi-1 with the lateral key of p1Plan
\* down on every tick and the jump key down on tick 0 only
RECURSIVE WalkOpponent(_, _, _, _)
WalkOpponent(s, lo, hi, p1Plan) ==
  IF lo >= hi THEN s
  ELSE IF hi = lo + 1
  THEN SlimeUpdate(s, TRUE, gameMode, BuildP1Input(p1Plan.action, lo = 0 /\ p1Plan.jumpOnStep0))
  ELSE CHOOSE q \in {WalkOpponent(h, (lo + hi) \div 2, hi, p1Plan) :
                       h \in {WalkOpponent(s, lo, (lo + hi) \div 2, p1Plan)}} : TRUE

\* player 1's slime s after ticks lo .. hi-1 with the keys of p1Plan, the jump
\* key with them, down on every tick
RECURSIVE WalkOpponentHeld(_, _, _, _)
WalkOpponentHeld(s, lo, hi, p1Plan) ==
  IF lo >= hi THEN s
  ELSE IF hi = lo + 1
  THEN SlimeUpdate(s, TRUE, gameMode, BuildP1Input(p1Plan.action, p1Plan.jumpOnStep0))
  ELSE CHOOSE q \in {WalkOpponentHeld(h, (lo + hi) \div 2, hi, p1Plan) :
                       h \in {WalkOpponentHeld(s, lo, (lo + hi) \div 2, p1Plan)}} : TRUE

\* C30: in a rollout given a p1Plan the opponent's jump flag is applied on
\* tick 0 only: the opponent ends where its lateral key and a jump key down
\* on tick 0 alone take it, and on ticks 1 .. steps-1 its jump key is up
C30_OpponentJumpOnce ==
  \A i \in DOMAIN calls :
    calls[i].args.p1Plan.given =>
      /\ heap[calls[i].result.end].p1 =
           WalkOpponent(calls[i].given.p1, 0, TicksOf(calls[i]), calls[i].args.p1Plan)
      /\ \A k \in 1 .. calls[i].args.steps - 1 : "KeyW" \notin OpponentInput(calls[i].args.p1Plan)

\* in every rollout with a p1Plan the opponent ends where the plan's keys,
\* all of them down on every tick, take it
OpponentKeysHeld ==
  \A i \in DOMAIN calls :
    calls[i].args.p1Plan.given =>
      heap[calls[i].result.end].p1 =
        WalkOpponentHeld(calls[i].given.p1, 0, TicksOf(calls[i]), calls[i].args.p1Plan)

\* a rollout of the net contest's horizon whose opponent started on the
\* ground with its jump flag set and is in the air again at the end
OpponentJumpsTwice ==
  \E i \in DOMAIN calls :
    /\ calls[i].args.p1Plan.jumpOnStep0 /\ calls[i].args.steps = volleyballHorizon
    /\ TicksOf(calls[i]) = volleyballHorizon
    /\ calls[i].given.p1.y = groundY
    /\ heap[calls[i].result.end].p1.y < groundY
    /\ heap[calls[i].result.end].p1.vy < 0

\* the plan whose keys the engine has emitted
EmittedPlan ==
  Plan(IF "ArrowLeft" \in ai.emitted THEN "LEFT"
       ELSE IF "ArrowRight" \in ai.emitted THEN "RIGHT" ELSE "NONE",
       "ArrowUp" \in ai.emitted)

\* the end of a one-step rollout of the emitted plan, from the snapshot the
\* engine took on its last call, against the plan read off player 1's keys
FirstStep ==
  Simulate(gameMode, SnapshotOf(ai.seen), 1, EmittedPlan, PlanFromInput(ai.seen.input), now).end

\* the engine was called with the ball not frozen
SearchedInPlay == Searched /\ ~(now < ai.seen.ball.frozenUntil)

\* C31: when the ball is not frozen, the live slimes and ball after the
\* update equal the state after the first step of the rollout of the plan
\* the engine selected, against the opponent keys the plan was derived from
C31_RolloutFidelity ==
  SearchedInPlay => FirstStep = SnapshotOf(LiveWorld)

\* the same with player 1 at rest on the ground with no key down on the call,
\* and no point recorded by the update
FidelityAtRest ==
  (/\ SearchedInPlay /\ pts = <<>> /\ ai.seen.input = {}
   /\ ai.seen.p1.y = groundY /\ ai.seen.p1.vy = 0) => FirstStep = SnapshotOf(LiveWorld)

\* whatever player 1 does, the rollout's first step is the live update of
\* player 2, and it moves player 1 once more than the live update has
FirstStepMovesPlayer1Again ==
  (SearchedInPlay /\ pts = <<>>) =>
     /\ FirstStep.p2 = p2
     /\ FirstStep.p1 = SlimeUpdate(p1, TRUE, gameMode, ai.seen.input)

\* player 1 ran to the right during an update in play
Player1Ran == SearchedInPlay /\ pts = <<>> /\ "KeyD" \in ai.seen.input /\ p1.vx = slimeSpeed

\* the simulator's ball is where the live ball is, moving as it moves
SameBall == BallSimState(ball) = sim.state

\* the simulator has run beside a live ball that no slime has touched
Flown == sim # <<>> /\ ticks > 0 /\ ~touched /\ "hit1" \notin ev /\ "hit2" \notin ev

\* the simulator's verdict and the point of the live tick agree
SameVerdict ==
  /\ (sim.outcome # <<>> /\ sim.outcome.verdict = "win") <=> pts = <<2>>
  /\ (sim.outcome # <<>> /\ sim.outcome.verdict = "loss") <=> pts = <<1>>

\* C32: in a goal contest in which no slime touches the ball, after every tick
\* the trajectory simulator's ball has the live ball's position and velocity
\* (while no point is recorded), and it returns 'win' at the tick at which the
\* live ball records a point for player 2, 'loss' at the tick at which it
\* records one for player 1, and nothing at any other tick
C32_TrajectoryMatches == Flown => (pts = <<>> => SameBall) /\ SameVerdict

\* the two agree as long as the live ball's speed was never clamped and it met
\* no crossbar
MatchesUnclampedOffTheBar ==
  (Flown /\ ~sim.clamped /\ ~sim.barred) => (pts = <<>> => SameBall) /\ SameVerdict

\* a clamped update desynchronises the two balls, whatever the verdicts
ClampedApart == Flown /\ sim.clamped /\ ~sim.barred /\ pts = <<>> /\ ~SameBall

\* a ball a crossbar pushed over the goal line: the simulator returns at once,
\* the live ball has recorded nothing
EarlyVerdict == Flown /\ sim.barred /\ ~sim.clamped /\ sim.outcome # <<>> /\ pts = <<>>

\* both ran into a goal on the same tick
GoalTogether == Flown /\ sim.outcome # <<>> /\ pts # <<>> /\ SameVerdict

\* the metrics the call c returned add up over the ticks it ran
Consistent(c) ==
  LET m == c.result.metrics
      n == TicksOf(c)
  IN /\ m.ourSideTicks + m.oppSideTicks = n
     /\ m.netCrossings <= n
     /\ 0 <= m.endNoCrossTicks
     /\ m.endNoCrossTicks <= m.maxNoCrossTicks
     /\ m.maxNoCrossTicks <= n

\* C33: the metrics of every net-contest rollout are consistent:
\* ourSideTicks + oppSideTicks is the number of ticks executed (the terminal
\* step, or the horizon when the verdict is 'none'), netCrossings is at most
\* that number, and 0 <= endNoCrossTicks <= maxNoCrossTicks <= ticks executed
C33_MetricsConsistent ==
  gameMode = "VOLLEYBALL" => \A k \in 1 .. Len(calls) : Consistent(calls[k])

\* a net-contest rollout in which the ball changed sides and then ran on
C33_Witness ==
  /\ gameMode = "VOLLEYBALL"
  /\ \E k \in 1 .. Len(calls) :
       LET m == calls[k].result.metrics
       IN m.netCrossings > 0 /\ m.ourSideTicks > 0 /\ m.oppSideTicks > 0
          /\ m.endNoCrossTicks > 0

\* a net-contest rollout that ended on a point before its horizon
C33_WitnessTerminal ==
  /\ gameMode = "VOLLEYBALL"
  /\ \E k \in 1 .. Len(calls) :
       /\ calls[k].result.verdict # "none"
       /\ calls[k].result.step < calls[k].args.steps
       /\ calls[k].result.metrics.maxNoCrossTicks > 0

\* the contact resolved was directly overhead, on a slime with no lateral
\* velocity, in the goal contest
Header == hit # <<>> /\ gameMode = "SOCCER" /\ IsDirectlyOnTop(hit.dx) /\ p1.vx = 0

\* C35: in the goal contest every directly-overhead contact (|dx| < 10% of
\* slimeRadius), stomp or pop, with a slime whose lateral velocity is zero
\* leaves the ball with a non-zero horizontal velocity, to the right if the
\* ball was right of the slime's centre at the previous tick and to the left
\* if it was left of it
C35_AntiJuggleDrift ==
  Header =>
     /\ hit.moving.vx # 0
     /\ ball.prevX > p1.x => hit.moving.vx > 0
     /\ ball.prevX < p1.x => hit.moving.vx < 0

\* a stomp on the right of the centre line by a ball that came from the left
C35_Witness ==
  /\ Header /\ IsStomp(hit.dx, hit.dy)
  /\ hit.dx > 0 /\ ball.prevX < p1.x /\ hit.moving.vx < 0

\* a pop on the left of the centre line by a ball that came from the right
C35_WitnessPop ==
  /\ Header /\ ~IsStomp(hit.dx, hit.dy)
  /\ hit.dx < 0 /\ ball.prevX > p1.x /\ hit.moving.vx > 0

\* a ball that was on the centre line an update earlier drifts right
C35_WitnessCentre == Header /\ ball.prevX = p1.x /\ hit.moving.vx > 0

\* the ball is within the vertical playfield
InField(b) == ballRadius <= b.y /\ b.y <= groundY - ballRadius

\* the ball b is the ball a after a ground bounce with nothing else in its way
Bounced(a, b) ==
  /\ b.y = groundY - ballRadius
  /\ b.vy = Mul(Integrate(a).vy, -80, 100)
  /\ b.vx = Mul(Integrate(a).vx, 95, 100)

\* C36: in the goal contest, ground contact records no point (the ball
\* bounces, vy multiplied by -0.8 and vx by 0.95), and after every unfrozen
\* ball update, crossbar and slime corrections included, the ball's centre is
\* between ballRadius and groundY - ballRadius
C36_VerticalPlayfield ==
  [][(ticks' = ticks + 1 /\ gameMode = "SOCCER" /\ "frozen" \notin ev') =>
        /\ InField(ball')
        /\ ("ground" \in ev' /\ "goalL" \notin ev' /\ "goalR" \notin ev') => pts' = <<>>
        /\ ev' = {"ground"} => Bounced(ball, ball')]_vars

\* a ground bounce in the goal contest
C36_Witness == gameMode = "SOCCER" /\ ev = {"ground"} /\ pts = <<>> /\ ball.vy < 0

\* a crossbar correction that sent the ball downwards
C36_WitnessCrossbar ==
  gameMode = "SOCCER" /\ ev \cap {"crossbarL", "crossbarR"} # {} /\ ball.y > goalTopY

\* a slime correction
C36_WitnessSlime == gameMode = "SOCCER" /\ ev \cap {"hit1", "hit2"} # {} /\ ball.y < ball.prevY

\* the top wall
C36_WitnessTop == gameMode = "SOCCER" /\ "top" \in ev /\ ball.y = ballRadius

\* the sources whose latest event for code was a press
Holders(code) == {source \in Sources : <<source, code>> \in pressed}

\* C37: after any interleaving of press and release events from the keyboard,
\* the touch buttons and the pad, isDown(code) is true iff some source's latest
\* event for the code was a press; the sources the handler lists for a code
\* are exactly those, so that a release from one source leaves the code held
\* by the others; and no code is mapped to an empty set of sources
C37_SourceTracking ==
  /\ \A code \in Codes : IsDown(activeInputs, code) <=> Holders(code) # {}
  /\ \A code \in DOMAIN activeInputs :
       activeInputs[code] # {} /\ activeInputs[code] = Holders(code)

\* a source released a code it held, and the code is still down for another
C37_Witness ==
  /\ lastSet # <<>> /\ ~lastSet.isDown /\ lastSet.held
  /\ IsDown(activeInputs, lastSet.code)

\* the pad was unplugged while it held the jump code, which the touch button
\* holds too
C37_WitnessUnplugged ==
  /\ lastSet # <<>> /\ lastSet.source = "gamepad" /\ ~lastSet.isDown /\ lastSet.held
  /\ gamepadIndex = -1
  /\ IsDown(activeInputs, "KeyW") /\ activeInputs["KeyW"] = {"touch"}

\* the last holder released the code: the code is no longer mapped
C37_WitnessLast ==
  /\ lastSet # <<>> /\ ~lastSet.isDown /\ lastSet.held
  /\ lastSet.code \notin DOMAIN activeInputs

\* C34: on every tick the input an engine (SoccerAI, VolleyballAI, AIPIDChase)
\* returns has at most one of player 2's two lateral signals active, and
\* nothing is active in it that this call did not set: what the previous tick
\* left active is cleared
C34_OneDirection ==
  (ai # <<>> /\ ai.seen # <<>>) =>
     /\ Cardinality(Lateral(ai.emitted)) <= 1
     /\ ai.emitted = ai.wanted
     /\ VirtualDown(ai.engine.input) = ai.emitted

\* the engine returned a lateral signal on one tick and not on the next
C34_Witness ==
  /\ ai # <<>> /\ ai.seen # <<>>
  /\ Lateral(ai.wasEmitted) # {} /\ Lateral(ai.emitted) # Lateral(ai.wasEmitted)

\* the engine turned around: it returns one lateral signal a tick after it
\* returned the other
C34_WitnessTurn ==
  /\ ai # <<>> /\ ai.seen # <<>>
  /\ Lateral(ai.wasEmitted) # {} /\ Lateral(ai.emitted) # {}
  /\ Lateral(ai.wasEmitted) # Lateral(ai.emitted)

\* the engine returns no signal a tick after it returned some
C34_WitnessCleared ==
  ai # <<>> /\ ai.seen # <<>> /\ ai.wasEmitted # {} /\ ai.emitted = {}

====

